---------------------------- MODULE Spec2Model ----------------------------
(***************************************************************************)
(* A model of settingslib: the indentation based config file               *)
(* (configfile.py: ConfigFile, PushBackFile), the resolvers (resolvers.py) *)
(* and the settings object with its precedence chain (basesettings.py:     *)
(* Section, BaseSettings).                                                 *)
(*                                                                         *)
(* Spec is the settings object in use, SpecRoundTrip a config tree that is *)
(* written and read back, SpecRead a hand-written stream that is read, and *)
(* SpecCompare the comparison of two config trees.                         *)
(*                                                                         *)
(* Python strings are sequences of one-character strings, so that strip,   *)
(* split, str() and int() are computed on the characters.  A Python value  *)
(* is a record tagged with its type in field t.  An operation that raises  *)
(* returns the value Exc(name).                                            *)
(***************************************************************************)
EXTENDS Integers, Sequences, FiniteSets, TLC

VARIABLES
    options,      \* Section.options: the command-line options (dict)
    userconfig,   \* Section.userconfig: the user file tree (ConfigFile)
    nosave,       \* Section.nosave: runtime values that are not saved (dict)
    envconfig,    \* Section.envconfig: values from the environment (dict)
    fileconfigs,  \* Section.fileconfigs: list of read-only ConfigFile trees
    proxies,      \* the SyncList and SyncDict objects that get() returned
    last,         \* the last call made, the state it was made in and its outcome
    cfg,          \* a ConfigFile: the tree that is read into, or compared
    peer,         \* the ConfigFile it is written from, or compared with
    text,         \* the lines of the stream that write produced or read parses
    reader,       \* the PushBackFile of the read: fp position, stack, lineno
    frames,       \* the activations of read_helper, the innermost last
    phase,        \* where the file operation stands
    ret           \* what the file operation returned or raised

ovars == <<options, userconfig, nosave, envconfig, fileconfigs, proxies>>
svars == <<ovars, last>>
fvars == <<cfg, peer, text, reader, frames, phase, ret>>
vars == <<svars, fvars>>

-----------------------------------------------------------------------------
(* Bounds of the model *)

\* largest int that set() is called with
MaxInt == 2
\* largest number of read-only file configs
MaxFileConfigs == 2

-----------------------------------------------------------------------------
(* Characters and strings *)

LowerLetters == <<"a","b","c","d","e","f","g","h","i","j","k","l","m",
                  "n","o","p","q","r","s","t","u","v","w","x","y","z">>
UpperLetters == <<"A","B","C","D","E","F","G","H","I","J","K","L","M",
                  "N","O","P","Q","R","S","T","U","V","W","X","Y","Z">>
Digits == <<"0","1","2","3","4","5","6","7","8","9">>

Range(s) == {s[i] : i \in DOMAIN s}
SetMin(S) == CHOOSE x \in S : \A y \in S : x <= y
SetMax(S) == CHOOSE x \in S : \A y \in S : x >= y
IndexIn(s, c) == CHOOSE i \in DOMAIN s : s[i] = c

\* str.lower() and str.upper(), character by character
LowerChar(c) == IF c \in Range(UpperLetters) THEN LowerLetters[IndexIn(UpperLetters, c)] ELSE c
UpperChar(c) == IF c \in Range(LowerLetters) THEN UpperLetters[IndexIn(LowerLetters, c)] ELSE c
Lower(s) == [i \in DOMAIN s |-> LowerChar(s[i])]
Upper(s) == [i \in DOMAIN s |-> UpperChar(s[i])]
\* str.isupper(): at least one cased character and no lower-case one
IsUpper(s) == /\ \E i \in DOMAIN s : s[i] \in Range(UpperLetters)
              /\ \A i \in DOMAIN s : s[i] \notin Range(LowerLetters)

Whitespace == {" ", "\t", "\n"}
\* str.strip(chars), str.lstrip(chars), str.rstrip(chars)
StripSet(s, cs) ==
    LET keep == {i \in DOMAIN s : s[i] \notin cs}
    IN  IF keep = {} THEN <<>> ELSE SubSeq(s, SetMin(keep), SetMax(keep))
LStripSet(s, cs) ==
    LET keep == {i \in DOMAIN s : s[i] \notin cs}
    IN  IF keep = {} THEN <<>> ELSE SubSeq(s, SetMin(keep), Len(s))
RStripSet(s, cs) ==
    LET keep == {i \in DOMAIN s : s[i] \notin cs}
    IN  IF keep = {} THEN <<>> ELSE SubSeq(s, 1, SetMax(keep))
Strip(s) == StripSet(s, Whitespace)
RStrip(s) == RStripSet(s, Whitespace)

\* s.startswith(p)
StartsWith(s, p) == Len(s) >= Len(p) /\ SubSeq(s, 1, Len(p)) = p
\* c in s
Contains(s, c) == \E i \in DOMAIN s : s[i] = c
\* s.split(c, 1): the text before the first c and the text after it
SplitBefore(s, c) == SubSeq(s, 1, SetMin({i \in DOMAIN s : s[i] = c}) - 1)
SplitAfter(s, c) == SubSeq(s, SetMin({i \in DOMAIN s : s[i] = c}) + 1, Len(s))

\* the order of the characters of keys and values
CharOrder == Digits \o UpperLetters \o LowerLetters

\* cmp(a, b) of two str
RECURSIVE str_cmp(_, _)
str_cmp(a, b) ==
    IF a = <<>> THEN (IF b = <<>> THEN 0 ELSE -1)
    ELSE IF b = <<>> THEN 1
    ELSE IF Head(a) = Head(b) THEN str_cmp(Tail(a), Tail(b))
    ELSE IF IndexIn(CharOrder, Head(a)) < IndexIn(CharOrder, Head(b)) THEN -1 ELSE 1

\* list.sort() of a list of distinct str, given as the set of its items
RECURSIVE Sorted(_)
Sorted(S) ==
    IF S = {} THEN <<>>
    ELSE LET m == CHOOSE x \in S : \A y \in S : str_cmp(x, y) <= 0
         IN  <<m>> \o Sorted(S \ {m})

RECURSIVE Split(_, _)
\* s.split(c)
Split(s, c) ==
    IF ~Contains(s, c) THEN <<s>> ELSE <<SplitBefore(s, c)>> \o Split(SplitAfter(s, c), c)

RECURSIVE Join(_, _)
\* sep.join(parts)
Join(sep, parts) ==
    IF parts = <<>> THEN <<>>
    ELSE IF Len(parts) = 1 THEN parts[1]
    ELSE parts[1] \o sep \o Join(sep, Tail(parts))

-----------------------------------------------------------------------------
(* Python values *)

PyInt(n) == [t |-> "int", v |-> n]
PyBool(b) == [t |-> "bool", v |-> b]
PyStr(s) == [t |-> "str", v |-> s]
PyNone == [t |-> "none", v |-> 0]
Exc(name) == [t |-> "exc", v |-> name]
IsExc(x) == x.t = "exc"

\* the empty dict
EmptyDict == [k \in {} |-> PyNone]
\* d[k] = v on a dict
DictPut(d, k, v) == [x \in (DOMAIN d) \cup {k} |-> IF x = k THEN v ELSE d[x]]
\* del d[k] on a dict
DictDel(d, k) == [x \in (DOMAIN d) \ {k} |-> d[x]]

\* a list, as the sequence of its items
PyList(l) == [t |-> "list", v |-> l]
\* a dict, as the function from its keys to its values
PyDict(d) == [t |-> "dict", d |-> d]

\* the number a bool or an int stands for in a comparison
NumOf(x) == IF x.t = "bool" THEN (IF x.v THEN 1 ELSE 0) ELSE x.v
\* a == b of Python: bool and int compare as numbers, str with str
PyEq(a, b) ==
    IF a.t \in {"int", "bool"} /\ b.t \in {"int", "bool"} THEN NumOf(a) = NumOf(b)
    ELSE a.t = b.t /\ a.v = b.v
\* x in l, for a list l
PyIn(x, l) == \E i \in DOMAIN l : PyEq(x, l[i])

RECURSIVE NatDigits(_)
\* the decimal digits of a natural number
NatDigits(n) == IF n < 10 THEN <<Digits[n + 1]>>
                ELSE NatDigits(n \div 10) \o <<Digits[(n % 10) + 1]>>
\* str(n) of an int
IntStr(n) == IF n < 0 THEN <<"-">> \o NatDigits(-n) ELSE NatDigits(n)

RECURSIVE DigitsNat(_)
\* the number written by a non-empty sequence of digits
DigitsNat(s) == IF Len(s) = 1 THEN IndexIn(Digits, s[1]) - 1
                ELSE 10 * DigitsNat(SubSeq(s, 1, Len(s) - 1)) + (IndexIn(Digits, s[Len(s)]) - 1)
IsDigits(s) == s # <<>> /\ \A i \in DOMAIN s : s[i] \in Range(Digits)

\* str(value)
Py_str(x) ==
    CASE x.t = "str" -> x.v
      [] x.t = "int" -> IntStr(x.v)
      [] x.t = "bool" -> IF x.v THEN <<"T","r","u","e">> ELSE <<"F","a","l","s","e">>
      [] OTHER -> <<"N","o","n","e">>

\* int(value): an int, or ValueError / TypeError
Py_int(x) ==
    CASE x.t = "int" -> x
      [] x.t = "bool" -> PyInt(NumOf(x))
      [] x.t = "str" ->
           LET s == Strip(x.v)
               neg == s # <<>> /\ s[1] = "-"
               body == IF s # <<>> /\ s[1] \in {"-", "+"} THEN Tail(s) ELSE s
           IN  IF IsDigits(body)
               THEN PyInt(IF neg THEN -DigitsNat(body) ELSE DigitsNat(body))
               ELSE Exc("ValueError")
      [] OTHER -> Exc("TypeError")

\* json.loads(s) of a number or of a string between double quotes (the texts
\* of the model hold no escape sequence)
json_scalar(s) ==
    LET w == Strip(s)
    IN  IF Len(w) >= 2 /\ w[1] = "\"" /\ w[Len(w)] = "\""
           /\ ~Contains(SubSeq(w, 2, Len(w) - 1), "\"")
        THEN PyStr(SubSeq(w, 2, Len(w) - 1))
        ELSE IF IsDigits(w) THEN PyInt(DigitsNat(w))
        ELSE Exc("ValueError")

\* json.loads(s) of the member "key: value" of an object
json_member(s) ==
    IF ~Contains(s, ":") THEN Exc("ValueError")
    ELSE LET k == json_scalar(SplitBefore(s, ":"))
             v == json_scalar(SplitAfter(s, ":"))
         IN  IF IsExc(k) \/ k.t # "str" \/ IsExc(v) THEN Exc("ValueError")
             ELSE [t |-> "member", k |-> k.v, v |-> v]

\* json.loads(s): an array or an object of scalars, a scalar, or ValueError
json_loads(s) ==
    LET w == Strip(s)
        inner == Strip(SubSeq(w, 2, Len(w) - 1))
        parts == IF inner = <<>> THEN <<>> ELSE Split(inner, ",")
    IN  IF Len(w) >= 2 /\ w[1] = "[" /\ w[Len(w)] = "]"
        THEN LET items == [i \in DOMAIN parts |-> json_scalar(parts[i])]
             IN  IF \E i \in DOMAIN items : IsExc(items[i]) THEN Exc("ValueError")
                 ELSE PyList(items)
        ELSE IF Len(w) >= 2 /\ w[1] = "{" /\ w[Len(w)] = "}"
        THEN LET members == [i \in DOMAIN parts |-> json_member(parts[i])]
             IN  IF \E i \in DOMAIN members : IsExc(members[i]) THEN Exc("ValueError")
                 ELSE PyDict([k \in {members[i].k : i \in DOMAIN members} |->
                          members[SetMax({i \in DOMAIN members : members[i].k = k})].v])
        ELSE json_scalar(w)

RECURSIVE json_dumps(_)
\* json.dumps(x) of a str, an int, a list or a dict; the members of a dict
\* are written in the order of its keys
json_dumps(x) ==
    CASE x.t = "str" -> <<"\"">> \o x.v \o <<"\"">>
      [] x.t = "int" -> IntStr(x.v)
      [] x.t = "list" ->
           <<"[">> \o Join(<<",", " ">>, [i \in DOMAIN x.v |-> json_dumps(x.v[i])]) \o <<"]">>
      [] x.t = "dict" ->
           LET keys == Sorted(DOMAIN x.d)
           IN  <<"{">> \o Join(<<",", " ">>,
                   [i \in DOMAIN keys |->
                       json_dumps(PyStr(keys[i])) \o <<":", " ">> \o json_dumps(x.d[keys[i]])])
               \o <<"}">>

-----------------------------------------------------------------------------
(* configfile.py: the ConfigFile tree.  values is the list __values (the     *)
(* keys in insertion order), dict the instance __dict__ restricted to keys,  *)
(* comments the dict __comments, section_comment the list __section_comment. *)

\* ConfigFile(autogrown, help)
ConfigFile_init(autogrown, help) ==
    [t |-> "cfg", values |-> <<>>, dict |-> EmptyDict, comments |-> EmptyDict,
     section_comment |-> help, autogrown |-> autogrown]

\* self[key]: the value and the tree afterwards (an absent key grows the tree)
ConfigFile_getitem(c, key) ==
    IF key \in Range(c.values)
    THEN [ret |-> IF key \in DOMAIN c.dict THEN c.dict[key] ELSE Exc("KeyError"), cfg |-> c]
    ELSE IF c.autogrown
    THEN [ret |-> ConfigFile_init(TRUE, <<>>),
          cfg |-> [c EXCEPT !.dict = DictPut(c.dict, key, ConfigFile_init(TRUE, <<>>)),
                            !.values = Append(c.values, key)]]
    ELSE [ret |-> Exc("KeyError"), cfg |-> c]

\* self[key] = val
ConfigFile_setitem(c, key, val) ==
    [c EXCEPT !.dict = DictPut(c.dict, key, val),
              !.values = IF key \in Range(c.values) THEN c.values ELSE Append(c.values, key)]

\* self.keys()
ConfigFile_keys(c) == c.values

\* self.set_help(key, message) for a message that is None or a str: the tree
\* afterwards, or the exception
ConfigFile_set_help(c, key, message) ==
    IF message = PyNone THEN c
    ELSE IF key = PyNone
    THEN [c EXCEPT !.section_comment = @ \o Split(message.v, "\n")]
    ELSE IF key.v \in Range(c.values)
    THEN [c EXCEPT !.comments = DictPut(@, key.v, Split(message.v, "\n"))]
    ELSE IF ~c.autogrown THEN Exc("KeyError")
    ELSE ConfigFile_setitem(c, key.v, ConfigFile_init(TRUE, Split(message.v, "\n")))

-----------------------------------------------------------------------------
(* The settings class of the model:                                          *)
(*     class Settings(BaseSettings):                                         *)
(*         INT = 1                                                           *)
(*         BOOL = True                                                       *)
(*         TMP = Option(1, 'int', save=False)                                *)
(*         FIXED = Option("3", 'int', solid=True)                            *)
(*         LIST = [1]                                                        *)
(*         DICT = {"g": "1"}                                                 *)
(*         SCRATCH = Option([1], 'list', save=False)                         *)
(*         MEMO = Option({"g": "1"}, 'dict', save=False)                     *)
(*         STR = "bye"                                                       *)
(*         STR2 = "world"                                                    *)
(*         STR3 = "{STR} {STR2}"                                             *)
(*         STR4 = "something"                                                *)
(*         STR0 = "zero"                                                     *)
(*         STR5 = "{STR0}"                                                   *)
(*         class SECTION(Section):                                           *)
(*             HELLO = 1                                                     *)
(*             class INNER(Section):                                         *)
(*                 DEEP = 1                                                  *)
(*         class DOCS(Section):                                              *)
(*             """notes"""                                                   *)
(*             TOPIC = 1                                                     *)

k_int == <<"i","n","t">>
k_bool == <<"b","o","o","l">>
k_tmp == <<"t","m","p">>
k_fixed == <<"f","i","x","e","d">>
k_list == <<"l","i","s","t">>
k_dict == <<"d","i","c","t">>
k_scratch == <<"s","c","r","a","t","c","h">>
k_memo == <<"m","e","m","o">>
k_str == <<"s","t","r">>
k_str2 == k_str \o <<"2">>
k_str3 == k_str \o <<"3">>
k_str4 == k_str \o <<"4">>
k_str0 == k_str \o <<"0">>
k_str5 == k_str \o <<"5">>
StrKeys == {k_str, k_str2, k_str3, k_str4, k_str0, k_str5}
k_section == <<"s","e","c","t","i","o","n">>
k_hello == <<"h","e","l","l","o">>
k_inner == <<"i","n","n","e","r">>
k_deep == <<"d","e","e","p">>
k_docs == <<"d","o","c","s">>
k_topic == <<"t","o","p","i","c">>
\* a Section subclass, as a value of the defaults
PyClass(name) == [t |-> "class", v |-> name]
\* Section.defaults, built by the metaclass
Defaults ==
    PyDict([k \in {k_int, k_bool, k_tmp, k_fixed, k_list, k_dict, k_scratch, k_memo,
                   k_section, k_docs} \cup StrKeys |->
        CASE k = k_int -> PyInt(1)
          [] k = k_bool -> PyBool(TRUE)
          [] k = k_tmp -> PyInt(1)
          [] k = k_fixed -> PyStr(<<"3">>)
          [] k \in {k_list, k_scratch} -> PyList(<<PyInt(1)>>)
          [] k \in {k_dict, k_memo} -> PyDict([g \in {<<"g">>} |-> PyStr(<<"1">>)])
          [] k = k_section -> PyClass("SECTION")
          [] k = k_docs -> PyClass("DOCS")
          [] k = k_str -> PyStr(<<"b","y","e">>)
          [] k = k_str2 -> PyStr(<<"w","o","r","l","d">>)
          [] k = k_str3 -> PyStr(<<"{","S","T","R","}"," ","{","S","T","R","2","}">>)
          [] k = k_str4 -> PyStr(<<"s","o","m","e","t","h","i","n","g">>)
          [] k = k_str0 -> PyStr(<<"z","e","r","o">>)
          [] k = k_str5 -> PyStr(<<"{","S","T","R","0","}">>)])

\* cls.defaults of the class Settings and of the Section subclasses in it
ClassDefaults(cls) ==
    CASE cls = "Settings" -> Defaults
      [] cls = "SECTION" ->
           PyDict([k \in {k_hello, k_inner} |->
                      IF k = k_hello THEN PyInt(1) ELSE PyClass("INNER")])
      [] cls = "INNER" -> PyDict([k \in {k_deep} |-> PyInt(1)])
      [] cls = "DOCS" -> PyDict([k \in {k_topic} |-> PyInt(1)])

\* cls.__doc__
ClassDoc(cls) == IF cls = "DOCS" THEN PyStr(<<"n","o","t","e","s">>) ELSE PyNone

\* Section.raw_extraOptions: the keyword arguments of each Option
RawExtraOptions ==
    [k \in DOMAIN Defaults.d |->
        CASE k \in {k_tmp, k_scratch, k_memo} -> [f \in {"save"} |-> PyBool(FALSE)]
          [] k = k_fixed -> [f \in {"solid"} |-> PyBool(TRUE)]
          [] OTHER -> [f \in {} |-> PyNone]]

\* Section._defaultExtraOptions (the two hooks are functions, kept apart)
DefaultExtraOptions == [save |-> PyBool(TRUE), solid |-> PyBool(FALSE)]

\* extra options that are never updated with the Option's own
ExtraOptions_noupdate ==
    [k \in DOMAIN RawExtraOptions |-> DefaultExtraOptions]

\* Section.extraOptions: the defaults updated with the Option's own
ExtraOptions ==
    [k \in DOMAIN RawExtraOptions |->
        [f \in DOMAIN DefaultExtraOptions |->
            IF f \in DOMAIN RawExtraOptions[k] THEN RawExtraOptions[k][f]
            ELSE DefaultExtraOptions[f]]]

\* Section.resolvers: the resolver class _get_resolver binds to each key
Resolvers ==
    [k \in DOMAIN Defaults.d |->
        CASE k = k_bool -> "bool"
          [] k \in {k_list, k_scratch} -> "list"
          [] k \in {k_dict, k_memo} -> "dict"
          [] k \in {k_section, k_docs} -> "section"
          [] k \in StrKeys -> "str"
          [] OTHER -> "int"]

\* self.extraOptions of an instance of class cls
ClassExtraOptions(cls) ==
    IF cls = "Settings" THEN ExtraOptions
    ELSE [k \in DOMAIN ClassDefaults(cls).d |-> DefaultExtraOptions]

\* the resolver class that Section.__init__ binds to key k of class cls: a
\* key without an Option gets the resolver of its default's type
ClassResolvers(cls) ==
    IF cls = "Settings" THEN Resolvers
    ELSE [k \in DOMAIN ClassDefaults(cls).d |->
             IF ClassDefaults(cls).d[k].t = "class" THEN "section"
             ELSE ClassDefaults(cls).d[k].t]

-----------------------------------------------------------------------------
(* resolvers.py *)

\* BoolSettingsResolver.NO_VALUES and YES_VALUES
NO_VALUES == <<PyBool(FALSE), PyStr(<<"F","a","l","s","e">>), PyInt(0),
               PyStr(<<"0">>), PyStr(<<"n","o">>), PyStr(<<"n">>)>>
YES_VALUES == <<PyBool(TRUE), PyStr(<<"T","r","u","e">>), PyInt(1),
                PyStr(<<"1">>), PyStr(<<"y","e","s">>), PyStr(<<"y">>)>>

\* BoolSettingsResolver.get
BoolSettingsResolver_get(value) ==
    IF PyIn(value, NO_VALUES) THEN PyBool(FALSE)
    ELSE IF PyIn(value, YES_VALUES) THEN PyBool(TRUE)
    ELSE PyNone

\* IntSettingsResolver.get
IntSettingsResolver_get(value) == Py_int(value)

\* ListSettingsResolver._get of the list resolver with the int resolver for
\* its items: json.loads, then resolver.get on every item
ListSettingsResolver__get(values) ==
    LET resolved(l) ==
            IF \E i \in DOMAIN l : IsExc(l[i])
            THEN l[SetMin({i \in DOMAIN l : IsExc(l[i])})]
            ELSE PyList(l)
        each(items) == resolved([i \in DOMAIN items |-> IntSettingsResolver_get(items[i])])
        keys(d) == [i \in DOMAIN Sorted(DOMAIN d) |-> PyStr(Sorted(DOMAIN d)[i])]
        iterate(loaded) ==
            IF IsExc(loaded) THEN loaded
            ELSE IF loaded.t = "int" THEN Exc("TypeError")
            ELSE each(CASE loaded.t = "list" -> loaded.v
                        [] loaded.t = "str" -> [i \in DOMAIN loaded.v |-> PyStr(<<loaded.v[i]>>)]
                        [] loaded.t = "dict" -> keys(loaded.d)
                        [] OTHER -> <<>>)
    IN  iterate(IF values.t = "str" THEN json_loads(values.v) ELSE Exc("TypeError"))

\* ListSettingsResolver.get: a SyncList over a copy of the list
ListSettingsResolver_get(key, values) ==
    IF values.t = "SyncList" THEN Exc("ResolveException")
    ELSE IF values.t = "list" THEN [t |-> "SyncList", key |-> key, l |-> values.v]
    ELSE LET wrap(r) == IF IsExc(r) THEN r ELSE [t |-> "SyncList", key |-> key, l |-> r.v]
         IN  wrap(ListSettingsResolver__get(values))

\* DictSettingsResolver.get: a SyncDict over a copy of the dict, or over
\* what json.loads makes of the text
DictSettingsResolver_get(key, values) ==
    IF values.t = "SyncDict" THEN Exc("ResolveException")
    ELSE IF values.t = "dict" THEN [t |-> "SyncDict", key |-> key, d |-> values]
    ELSE LET wrap(r) == IF IsExc(r) THEN r ELSE [t |-> "SyncDict", key |-> key, d |-> r]
         IN  wrap(IF values.t = "str" THEN json_loads(values.v) ELSE Exc("TypeError"))

\* resolver.get(value) of the resolver bound to key k
Resolver_get(k, value) ==
    IF IsExc(value) THEN value
    ELSE CASE Resolvers[k] = "bool" -> BoolSettingsResolver_get(value)
           [] Resolvers[k] = "list" -> ListSettingsResolver_get(k, value)
           [] Resolvers[k] = "dict" -> DictSettingsResolver_get(k, value)
           [] OTHER -> IntSettingsResolver_get(value)

\* SettingsResolver.raw: str(value)
Resolver_raw(k, value) == Py_str(value)

\* a validation that ignores the choices
IntSettingsResolver_validate_any(choices, value) == TRUE

\* "if x" for an int or None
Truthy(x) == x # PyNone /\ x.v # 0

\* a < b of Python 2 for ints and None: None is below every int
Py_lt(a, b) == IF a = PyNone THEN b # PyNone
               ELSE IF b = PyNone THEN FALSE
               ELSE a.v < b.v

\* IntSettingsResolver._validate of a resolver made with min, max and choices
\* and without step
IntSettingsResolver__validate(min, max, choices, value) ==
    IF Truthy(max) \/ Truthy(min)
    THEN IF Truthy(max) THEN Py_lt(min, value) /\ Py_lt(value, max)
         ELSE Py_lt(min, value)
    ELSE IF choices # <<>> THEN PyIn(value, choices)
    ELSE TRUE

\* IntSettingsResolver._validate with the resolver's min, max and choices:
\* the int resolver of the model has none, the bool resolver has choices
IntSettingsResolver_validate(choices, value) ==
    IntSettingsResolver__validate(PyNone, PyNone, choices, value)

\* resolver.validate(value) of the resolver bound to key k
Resolver_validate(k, value) ==
    IF Resolvers[k] = "bool"
    THEN IntSettingsResolver_validate(NO_VALUES \o YES_VALUES, value)
    ELSE IntSettingsResolver_validate(<<>>, value)

-----------------------------------------------------------------------------
(* basesettings.py: Section and BaseSettings, on the state of the root       *)
(* settings object.  Keys are given without dots here.                       *)

\* a mapping of the chain is a dict or a ConfigFile: setting.keys()
Mapping_keys(m) == IF m.t = "cfg" THEN Range(ConfigFile_keys(m)) ELSE DOMAIN m.d
\* setting[key]
Mapping_getitem(m, key) ==
    IF m.t = "cfg" THEN ConfigFile_getitem(m, key).ret
    ELSE IF key \in DOMAIN m.d THEN m.d[key] ELSE Exc("KeyError")

\* a chain that probes the user file before the command-line options
SettingsChain_userfirst(opts, uc, ns, env, files) ==
    <<uc, opts, ns, env>> \o files \o <<Defaults>>

\* the list [self.options, self.userconfig, self.nosave, self.envconfig]
\*          + self.fileconfigs + [self.defaults] of __getattr__
SettingsChain(opts, uc, ns, env, files) ==
    <<opts, uc, ns, env>> \o files \o <<Defaults>>

\* a __getattr__ that passes the default of a solid key through the resolver
Section_getattr_decoding(key) ==
    IF ~IsUpper(key) THEN Exc("AttributeError")
    ELSE LET k == Lower(key)
         IN  IF k \notin DOMAIN ExtraOptions THEN Exc("KeyError")
             ELSE IF ExtraOptions[k].solid = PyBool(TRUE) THEN Resolver_get(k, Defaults.d[k])
             ELSE LET chain == <<options, userconfig, nosave, envconfig>> \o fileconfigs \o <<Defaults>>
                      hits == {i \in DOMAIN chain : k \in Mapping_keys(chain[i])}
                  IN  IF hits = {} THEN Exc("AttributeError")
                      ELSE Resolver_get(k, Mapping_getitem(chain[SetMin(hits)], k))

\* Section.__getattr__(key)
Section_getattr(key) ==
    IF ~IsUpper(key) THEN Exc("AttributeError")
    ELSE LET k == Lower(key)
         IN  IF k \notin DOMAIN ExtraOptions THEN Exc("KeyError")
             ELSE IF ExtraOptions[k].solid = PyBool(TRUE) THEN Defaults.d[k]
             ELSE LET chain == SettingsChain(options, userconfig, nosave, envconfig, fileconfigs)
                      hits == {i \in DOMAIN chain : k \in Mapping_keys(chain[i])}
                  IN  IF hits = {} THEN Exc("AttributeError")
                      ELSE Resolver_get(k, Mapping_getitem(chain[SetMin(hits)], k))

\* Section.get(key), for a key without dots
Section_get(key) == Section_getattr(Upper(key))

\* Section.help(key): with a key, the local name settings is read before
\* it is ever assigned
Section_help(key) ==
    IF key = PyNone THEN PyNone ELSE Exc("UnboundLocalError")

\* Section.__setattr__(key, value) for an upper-case key: the user file tree
\* and the nosave dict afterwards, the callbacks invoked (each with what the
\* target source holds for the key at that moment) and the outcome
Section_setattr(key, value) ==
    LET k == Lower(key)
        same == [uc |-> userconfig, ns |-> nosave, cb |-> <<>>]
    IN  IF k \notin DOMAIN Resolvers THEN same @@ [ret |-> Exc("KeyError")]
        ELSE IF Resolver_validate(k, value)
        THEN IF ExtraOptions[k].save # PyBool(FALSE)
             THEN LET uc1 == ConfigFile_setitem(userconfig, k, PyStr(Resolver_raw(k, value)))
                      help == Section_help(PyStr(k))
                  IN  IF IsExc(help)
                      THEN [uc |-> uc1, ns |-> nosave, cb |-> <<>>, ret |-> help]
                      ELSE [uc |-> uc1, ns |-> nosave,
                            cb |-> <<[key |-> key, value |-> value,
                                      stored |-> Mapping_getitem(uc1, k)]>>,
                            ret |-> PyNone]
             ELSE LET ns1 == PyDict(DictPut(nosave.d, k, value))
                  IN  [uc |-> userconfig, ns |-> ns1,
                       cb |-> <<[key |-> key, value |-> value,
                                 stored |-> Mapping_getitem(ns1, k)]>>,
                       ret |-> PyNone]
        ELSE same @@ [ret |-> Exc("SettingsException")]

\* Section.set(key, value), for a key without dots
Section_set(key, value) == Section_setattr(Upper(key), value)

\* del setting[key] for the two runtime mappings, in the order of the loop
\* for setting in [self.userconfig, self.nosave]: ConfigFile has __setitem__
\* and no __delitem__
RuntimeDelete(k) ==
    IF k \in Mapping_keys(userconfig)
    THEN [uc |-> userconfig, ns |-> nosave, ret |-> Exc("AttributeError")]
    ELSE IF k \in Mapping_keys(nosave)
    THEN [uc |-> userconfig, ns |-> PyDict(DictDel(nosave.d, k)), ret |-> PyNone]
    ELSE [uc |-> userconfig, ns |-> nosave, ret |-> PyNone]

\* Section.__delattr__(key) for an upper-case key
Section_delattr(key) == RuntimeDelete(Lower(key))

\* Section.delele(key) with its default arguments, for a key without dots:
\* the key is looked up as given
Section_delele(key) == RuntimeDelete(key)

RECURSIVE set_options_loop(_, _)
\* the loop of BaseSettings.set_options over the items of args
set_options_loop(opts, items) ==
    IF items = <<>> \/ IsExc(opts) THEN opts
    ELSE LET key == items[1].key
             value == items[1].value
             next ==
                 IF Contains(key, ".")
                 THEN LET dkey == SplitBefore(key, ".")
                          rest == SplitAfter(key, ".")
                          o1 == IF dkey \notin DOMAIN opts.d
                                THEN PyDict(DictPut(opts.d, Lower(dkey), PyDict(EmptyDict)))
                                ELSE opts
                      IN  IF Lower(dkey) \notin DOMAIN o1.d THEN Exc("KeyError")
                          ELSE IF o1.d[Lower(dkey)].t # "dict" THEN Exc("TypeError")
                          ELSE PyDict(DictPut(o1.d, Lower(dkey),
                                   PyDict(DictPut(o1.d[Lower(dkey)].d, rest, value))))
                 ELSE PyDict(DictPut(opts.d, Lower(key), value))
         IN  set_options_loop(next, Tail(items))

\* BaseSettings.set_options(args): items is args.items()
BaseSettings_set_options(items) == set_options_loop(PyDict(EmptyDict), items)

-----------------------------------------------------------------------------
(* basesettings.py: Section on an instance.  An instance is the record of    *)
(* its class and of its sources: options and envconfig are dicts of its own, *)
(* userconfig and nosave are the objects it shares with its parent (the      *)
(* parent's userconfig[key] and nosave[key]), fileconfigs the subtrees of    *)
(* the parent's file configs.  An operator that changes an instance returns  *)
(* the instance afterwards.                                                  *)

\* d.items(), in the order of the keys
ItemsOf(d) ==
    LET keys == Sorted(DOMAIN d)
    IN  [i \in DOMAIN keys |-> [key |-> keys[i], value |-> d[keys[i]]]]

RECURSIVE init_envconfig(_, _)
\* the loop of Section.__init__ over the items of envconfig
init_envconfig(env, items) ==
    IF items = <<>> \/ IsExc(env) THEN env
    ELSE LET key == items[1].key
             value == items[1].value
             next ==
                 IF Contains(key, ".")
                 THEN LET dkey == SplitBefore(key, ".")
                          rest == SplitAfter(key, ".")
                          e1 == IF dkey \notin DOMAIN env.d
                                THEN PyDict(DictPut(env.d, dkey, PyDict(EmptyDict)))
                                ELSE env
                      IN  IF e1.d[dkey].t # "dict" THEN Exc("TypeError")
                          ELSE PyDict(DictPut(e1.d, dkey,
                                   PyDict(DictPut(e1.d[dkey].d, rest, value))))
                 ELSE PyDict(DictPut(env.d, key, value))
         IN  init_envconfig(next, Tail(items))

\* Section.__init__(root, options, userconfig, nosave, envconfig, configs) of
\* class cls: the instance, or the exception, and the object userconfig
\* afterwards, which userconfig.set_help(None, self.__doc__) has changed when
\* the class has a docstring (the calls of the initialize hooks that end
\* __init__ are counted by initialize_calls)
Section_init(cls, opts, uc, ns, env, configs) ==
    IF opts.t # "dict" \/ uc.t # "cfg" THEN [ret |-> Exc("AttributeError"), uc |-> uc]
    ELSE LET helped(uc1, o, e) ==
                 [ret |-> IF IsExc(e) THEN e
                          ELSE [t |-> "Section", cls |-> cls, options |-> o, userconfig |-> uc1,
                                nosave |-> ns, envconfig |-> e, fileconfigs |-> configs],
                  uc |-> uc1]
             looped(o) ==
                 IF IsExc(o) THEN [ret |-> o, uc |-> uc]
                 ELSE helped(ConfigFile_set_help(uc, PyNone, ClassDoc(cls)), o,
                             IF env.t # "dict" THEN Exc("AttributeError")
                             ELSE init_envconfig(PyDict(EmptyDict), ItemsOf(env.d)))
         IN  looped(set_options_loop(PyDict(EmptyDict), ItemsOf(opts.d)))

\* SectionSettingsResolver.get of the resolver bound to key k of instance
\* self: the new instance of the subsection (or the exception) and self
\* afterwards
SectionSettingsResolver_get(self, k) ==
    LET section == ClassDefaults(self.cls).d[k].v
        grown == ConfigFile_getitem(self.userconfig, k)
        ns == IF k \in DOMAIN self.nosave.d THEN self.nosave
              ELSE PyDict(DictPut(self.nosave.d, k, PyDict(EmptyDict)))
        looked == [i \in DOMAIN self.fileconfigs |-> ConfigFile_getitem(self.fileconfigs[i], k)]
        found == {i \in DOMAIN looked : ~IsExc(looked[i].ret)}
        RECURSIVE pick(_)
        pick(i) == IF i > Len(looked) THEN <<>>
                   ELSE (IF i \in found THEN <<looked[i].ret>> ELSE <<>>) \o pick(i + 1)
        opts == IF k \in DOMAIN self.options.d THEN self.options
                ELSE PyDict(DictPut(self.options.d, k, PyDict(EmptyDict)))
        env == IF k \in DOMAIN self.envconfig.d THEN self.envconfig
               ELSE PyDict(DictPut(self.envconfig.d, k, PyDict(EmptyDict)))
    IN  IF IsExc(grown.ret) THEN [ret |-> grown.ret, self |-> self]
        ELSE LET self1 == [self EXCEPT !.userconfig = grown.cfg, !.nosave = ns,
                                       !.fileconfigs = [i \in DOMAIN looked |-> looked[i].cfg],
                                       !.options = opts, !.envconfig = env]
                 built(made) == [ret |-> made.ret,
                                 self |-> [self1 EXCEPT !.userconfig.dict[k] = made.uc]]
             IN  built(Section_init(section, opts.d[k], grown.ret, ns.d[k], env.d[k], pick(1)))

RECURSIVE Section_getattr_on(_, _)
RECURSIVE Section_walk(_, _, _)

\* the characters of a name of StrSettingsResolver.SETTING_REGEX, [1-9A-Z_\.]
SETTING_REGEX == (Range(Digits) \ {"0"}) \cup Range(UpperLetters) \cup {"_", "."}

RECURSIVE findall_settings(_)
\* re.findall(self.SETTING_REGEX, value): the names between braces
findall_settings(value) ==
    IF ~Contains(value, "{") THEN <<>>
    ELSE LET rest == SplitAfter(value, "{")
             stops == {i \in DOMAIN rest : rest[i] \notin SETTING_REGEX}
             n == IF stops = {} THEN Len(rest) ELSE SetMin(stops) - 1
         IN  IF n > 0 /\ n < Len(rest) /\ rest[n + 1] = "}"
             THEN <<SubSeq(rest, 1, n)>> \o findall_settings(SubSeq(rest, n + 2, Len(rest)))
             ELSE findall_settings(rest)

RECURSIVE format_kwargs(_, _, _)
\* the dict of StrSettingsResolver.get: for every name found, its part before
\* the first dot and what self.settings.root.get() returns for that part.
\* The str keys of the model are keys of the root, which is its own root
format_kwargs(self, names, kw) ==
    IF names = <<>> THEN [ret |-> PyDict(kw), self |-> self]
    ELSE LET first == Split(names[1], ".")[1]
             rest(g) == IF IsExc(g.ret) THEN g
                        ELSE format_kwargs(g.self, Tail(names), DictPut(kw, first, g.ret))
         IN  rest(Section_getattr_on(self, Upper(first)))

RECURSIVE str_format(_, _, _)
\* value.format(**kwargs), for a value without doubled braces and fields made
\* of a name and attribute names: the text or the exception, and self
\* afterwards.  The attributes of a field are read from the kwargs object, a
\* new instance of the subsection; reading them from the root along the whole
\* name gives the same values and leaves the same objects behind
str_format(self, value, kw) ==
    IF ~Contains(value, "{")
    THEN [ret |-> IF Contains(value, "}") THEN Exc("ValueError") ELSE PyStr(value), self |-> self]
    ELSE LET pre == SplitBefore(value, "{")
             rest == SplitAfter(value, "{")
         IN  IF Contains(pre, "}") \/ ~Contains(rest, "}")
             THEN [ret |-> Exc("ValueError"), self |-> self]
             ELSE LET name == SplitBefore(rest, "}")
                      parts == Split(name, ".")
                      text_of(r) == [ret |-> IF IsExc(r.ret) THEN r.ret ELSE PyStr(Py_str(r.ret)),
                                     self |-> r.self]
                      joined(field, tail) ==
                          IF IsExc(tail.ret) THEN tail
                          ELSE [ret |-> PyStr(pre \o field.ret.v \o tail.ret.v), self |-> tail.self]
                      after(field) ==
                          IF IsExc(field.ret) THEN field
                          ELSE joined(field, str_format(field.self, SplitAfter(rest, "}"), kw))
                  IN  after(IF name = <<>> \/ IsDigits(parts[1])
                            THEN [ret |-> Exc("IndexError"), self |-> self]
                            ELSE IF parts[1] \notin DOMAIN kw
                            THEN [ret |-> Exc("KeyError"), self |-> self]
                            ELSE IF Len(parts) = 1
                            THEN [ret |-> PyStr(Py_str(kw[parts[1]])), self |-> self]
                            ELSE text_of(Section_walk(self, SubSeq(parts, 1, Len(parts) - 1),
                                             [name |-> "__getattr__", key |-> parts[Len(parts)]])))

\* StrSettingsResolver.get of the resolver of instance self
StrSettingsResolver_get(self, value) ==
    LET format(v, kwargs) ==
            IF IsExc(kwargs.ret) THEN kwargs ELSE str_format(kwargs.self, v, kwargs.ret.d)
        search(v, names) ==
            format(v, IF names # <<>> THEN format_kwargs(self, names, EmptyDict)
                      ELSE [ret |-> PyDict(EmptyDict), self |-> self])
    IN  search(Py_str(value), findall_settings(Py_str(value)))

\* resolver.get(value) of the resolver of class type bound to key k
SettingsResolver_get(type, k, value) ==
    IF IsExc(value) THEN value
    ELSE CASE type = "bool" -> BoolSettingsResolver_get(value)
           [] type = "list" -> ListSettingsResolver_get(k, value)
           [] type = "dict" -> DictSettingsResolver_get(k, value)
           [] OTHER -> IntSettingsResolver_get(value)

\* self.__getattr__(key) of an instance: the outcome and self afterwards
Section_getattr_on(self, key) ==
    LET k == Lower(key)
        raised(e) == [ret |-> Exc(e), self |-> self]
    IN  IF ~IsUpper(key) THEN raised("AttributeError")
        ELSE IF k \notin DOMAIN ClassExtraOptions(self.cls) THEN raised("KeyError")
        ELSE IF ClassExtraOptions(self.cls)[k].solid = PyBool(TRUE)
        THEN [ret |-> ClassDefaults(self.cls).d[k], self |-> self]
        ELSE LET chain == <<self.options, self.userconfig, self.nosave, self.envconfig>>
                              \o self.fileconfigs \o <<ClassDefaults(self.cls)>>
                 hits == {i \in DOMAIN chain : k \in Mapping_keys(chain[i])}
             IN  IF hits = {} THEN raised("AttributeError")
                 ELSE IF ClassResolvers(self.cls)[k] = "section"
                 THEN SectionSettingsResolver_get(self, k)
                 ELSE IF ClassResolvers(self.cls)[k] = "str"
                 THEN StrSettingsResolver_get(self, Mapping_getitem(chain[SetMin(hits)], k))
                 ELSE [ret |-> SettingsResolver_get(ClassResolvers(self.cls)[k], k,
                                   Mapping_getitem(chain[SetMin(hits)], k)),
                       self |-> self]

\* resolver.validate(value) and resolver.raw(value) of the resolver of class
\* type (the resolvers of the model have no validate function, no min, no
\* max and no choices but the bool resolver's)
SettingsResolver_validate(type, value) ==
    IF type = "bool" THEN IntSettingsResolver_validate(NO_VALUES \o YES_VALUES, value)
    ELSE IntSettingsResolver_validate(<<>>, value)
SettingsResolver_raw(type, value) ==
    IF type = "section" THEN Exc("ResolveException") ELSE PyStr(Py_str(value))

\* self.__setattr__(key, value) of an instance, for an upper-case key: self
\* afterwards, the callbacks invoked and the outcome
Section_setattr_on(self, key, value) ==
    LET k == Lower(key)
        type == ClassResolvers(self.cls)[k]
        raw == SettingsResolver_raw(type, value)
        stored == [self EXCEPT !.userconfig = ConfigFile_setitem(self.userconfig, k, raw)]
        kept == [self EXCEPT !.nosave = PyDict(DictPut(self.nosave.d, k, value))]
    IN  IF k \notin DOMAIN ClassResolvers(self.cls)
        THEN [self |-> self, cb |-> <<>>, ret |-> Exc("KeyError")]
        ELSE IF ~SettingsResolver_validate(type, value)
        THEN [self |-> self, cb |-> <<>>, ret |-> Exc("SettingsException")]
        ELSE IF ClassExtraOptions(self.cls)[k].save # PyBool(FALSE)
        THEN IF IsExc(raw) THEN [self |-> self, cb |-> <<>>, ret |-> raw]
             ELSE IF IsExc(Section_help(PyStr(k)))
             THEN [self |-> stored, cb |-> <<>>, ret |-> Section_help(PyStr(k))]
             ELSE [self |-> stored, cb |-> <<[key |-> key, value |-> value]>>, ret |-> PyNone]
        ELSE [self |-> kept, cb |-> <<[key |-> key, value |-> value]>>, ret |-> PyNone]

\* a subsection that works on copies of the parent's objects
Adopt_detached(parent, k, child) == parent

\* the parent afterwards, when the instance read from its key k has changed:
\* the instance's userconfig and nosave are the parent's own objects
Adopt(parent, k, child) ==
    [parent EXCEPT !.userconfig.dict[k] = child.userconfig,
                   !.nosave = PyDict(DictPut(parent.nosave.d, k, child.nosave))]

\* "for k in path: settings = settings.__getattr__(k)" from instance self, then
\* the call op on the instance reached: the outcome, the callbacks and self
\* afterwards
Section_walk(self, path, op) ==
    IF path = <<>>
    THEN IF op.name = "__getattr__"
         THEN LET read(r) == [ret |-> r.ret, cb |-> <<>>, self |-> r.self]
              IN  read(Section_getattr_on(self, op.key))
         ELSE Section_setattr_on(self, op.key, op.value)
    ELSE LET back(g, r) ==
                 [ret |-> r.ret, cb |-> r.cb, self |-> Adopt(g.self, Lower(path[1]), r.self)]
             on(g) ==
                 IF IsExc(g.ret) THEN [ret |-> g.ret, cb |-> <<>>, self |-> g.self]
                 ELSE IF g.ret.t # "Section"
                 THEN [ret |-> Exc("AttributeError"), cb |-> <<>>, self |-> g.self]
                 ELSE back(g, Section_walk(g.ret, Tail(path), op))
         IN  on(Section_getattr_on(self, path[1]))

\* key.split('.')[:-1] and key.split('.')[-1]
PathOfKey(key) == SubSeq(Split(key, "."), 1, Len(Split(key, ".")) - 1)
LastOfKey(key) == Split(key, ".")[Len(Split(key, "."))]

\* self.get(key): the sections of the path are read with k.upper()
Section_get_on(self, key) ==
    Section_walk(self, [i \in DOMAIN PathOfKey(key) |-> Upper(PathOfKey(key)[i])],
                 [name |-> "__getattr__", key |-> Upper(LastOfKey(key))])

\* self.set(key, value): the sections of the path are read with k as given
Section_set_on(self, key, value) ==
    Section_walk(self, PathOfKey(key),
                 [name |-> "__setattr__", key |-> Upper(LastOfKey(key)), value |-> value])

RECURSIVE has_walk(_, _)
\* "for k in path: settings = settings.defaults[k]" of has(), from the class
\* or the value settings: the value reached, or the exception
has_walk(settings, path) ==
    IF path = <<>> THEN settings
    ELSE IF settings.t # "class" THEN Exc("AttributeError")
    ELSE IF path[1] \notin DOMAIN ClassDefaults(settings.v).d THEN Exc("KeyError")
    ELSE has_walk(ClassDefaults(settings.v).d[path[1]], Tail(path))

\* self.has(key): only AttributeError is caught
Section_has(self, key) ==
    LET settings == has_walk(PyClass(self.cls), PathOfKey(key))
    IN  IF settings = Exc("AttributeError") THEN PyBool(FALSE)
        ELSE IF IsExc(settings) THEN settings
        ELSE IF settings.t # "class" THEN PyBool(FALSE)
        ELSE PyBool(LastOfKey(key) \in DOMAIN ClassDefaults(settings.v).d)

-----------------------------------------------------------------------------
(* ConfigFile.__cmp__ and __eq__ *)

RECURSIVE ConfigFile_cmp(_, _)
RECURSIVE cmp_attrs(_, _, _, _)

\* cmp(x, y) of the values of two trees, each a str or a ConfigFile: the
\* result and y afterwards.  With a ConfigFile on one side only, cmp() ends
\* in the __cmp__ of the ConfigFile, called with the str as other
Py_cmp(x, y) ==
    IF x.t = "str" /\ y.t = "str" THEN [ret |-> PyInt(str_cmp(x.v, y.v)), other |-> y]
    ELSE IF x.t = "cfg" THEN ConfigFile_cmp(x, y)
    ELSE LET r == ConfigFile_cmp(y, x)
         IN  [ret |-> IF IsExc(r.ret) THEN r.ret ELSE PyInt(-r.ret.v), other |-> y]

\* the loop "for attr in v1" of __cmp__, from the i-th key on
cmp_attrs(self, other, v1, i) ==
    IF i > Len(v1) THEN [ret |-> PyInt(0), other |-> other]
    ELSE LET attr == v1[i]
             mine == ConfigFile_getitem(self, attr).ret
             got == ConfigFile_getitem(other, attr)
             r == Py_cmp(mine, got.ret)
             after == IF r.other = got.ret THEN got.cfg
                      ELSE [got.cfg EXCEPT !.dict[attr] = r.other]
         IN  IF IsExc(mine) THEN [ret |-> mine, other |-> other]
             ELSE IF other.t # "cfg" THEN [ret |-> Exc("TypeError"), other |-> other]
             ELSE IF IsExc(got.ret) THEN [ret |-> got.ret, other |-> other]
             ELSE IF IsExc(r.ret) \/ r.ret.v # 0 THEN [ret |-> r.ret, other |-> after]
             ELSE cmp_attrs(self, after, v1, i + 1)

\* self.__cmp__(other): the result and other afterwards.  v1 and v2 are both
\* the sorted keys of self, so that cmp(v1, v2) is 0
ConfigFile_cmp(self, other) ==
    LET v1 == Sorted(Range(self.values))
        v2 == Sorted(Range(self.values))
    IN  IF v1 # v2 THEN [ret |-> PyInt(IF Len(v1) < Len(v2) THEN -1 ELSE 1), other |-> other]
        ELSE cmp_attrs(self, other, v1, 1)

\* self.__eq__(other), other a ConfigFile
ConfigFile_eq(self, other) ==
    LET r == ConfigFile_cmp(self, other)
    IN  [ret |-> IF IsExc(r.ret) THEN r.ret ELSE PyBool(r.ret.v = 0), other |-> r.other]

-----------------------------------------------------------------------------
(* ConfigFile.write.  A stream is the sequence of its lines, each without   *)
(* its newline.                                                             *)

Spaces(n) == [i \in 1..n |-> " "]
Hashes(n) == [i \in 1..n |-> "#"]
\* str.ljust(n)
LJust(s, n) == IF Len(s) >= n THEN s ELSE s \o Spaces(n - Len(s))

\* the loop of write that computes lengte from the section comment lines
RECURSIVE write_lengte(_, _, _)
write_lengte(lines, i, lengte) ==
    IF i > Len(lines) THEN lengte
    ELSE write_lengte(lines, i + 1,
                      IF lengte < Len(Strip(lines[i])) THEN Len(lines[i]) ELSE lengte)

\* the box write puts around the section comment
write_section_comment(lines) ==
    IF lines = <<>> THEN <<>>
    ELSE LET lengte == write_lengte(lines, 1, 5) + 4
         IN  <<Hashes(lengte)>>
             \o [i \in 1..Len(lines) |-> <<"#", " ">> \o LJust(lines[i], lengte - 4) \o <<" ", "#">>]
             \o <<Hashes(lengte)>>

RECURSIVE ConfigFile_write(_)
RECURSIVE write_attrs(_, _)

\* the loop of write over self.__values, from the i-th key on
write_attrs(c, i) ==
    IF i > Len(c.values) THEN <<>>
    ELSE LET attr == c.values[i]
             item == c.dict[attr]
             sub == ConfigFile_write(item)
             comments == IF attr \in DOMAIN c.comments THEN c.comments[attr] ELSE <<>>
         IN  (IF item.t = "cfg"
              THEN <<<<>>, attr \o <<":">>>> \o [j \in 1..Len(sub) |-> Spaces(4) \o sub[j]]
              ELSE [j \in 1..Len(comments) |-> <<"#", " ">> \o comments[j]]
                   \o <<attr \o <<" ", "=", " ">> \o item.v>>)
             \o write_attrs(c, i + 1)

\* ConfigFile.write(fp): the lines written to fp
ConfigFile_write(c) == write_section_comment(c.section_comment) \o write_attrs(c, 1)

-----------------------------------------------------------------------------
(* PushBackFile *)

Blank == {" ", "\t"}

\* push that loses the line
PushBackFile_push_lost(rd, line) == rd

\* untab without the expansion of tabs
untab_asis(newline, line) == newline \o line

\* PushBackFile.untab(line)
RECURSIVE untab(_, _)
untab(newline, line) ==
    IF line = <<>> THEN newline
    ELSE IF Head(line) = " " THEN untab(Append(newline, " "), Tail(line))
    ELSE IF Head(line) = "\t"
         THEN untab(newline \o Spaces(4 - (Len(newline) % 4)), Tail(line))
    ELSE newline \o line

PushBackFile_init == [pos |-> 0, stack |-> <<>>, lineno |-> 0]

\* PushBackFile.next(stack): fp is the stream lines, of which pos are consumed;
\* stop stands for StopIteration
PushBackFile_next(rd, lines, stack) ==
    IF rd.stack # <<>> /\ stack
    THEN [stop |-> FALSE,
          line |-> untab(<<>>, RStrip(rd.stack[Len(rd.stack)])),
          rd |-> [rd EXCEPT !.stack = SubSeq(@, 1, Len(@) - 1), !.lineno = @ + 1]]
    ELSE IF rd.pos >= Len(lines)
    THEN [stop |-> TRUE, line |-> <<>>, rd |-> rd]
    ELSE [stop |-> FALSE,
          line |-> untab(<<>>, RStrip(lines[rd.pos + 1])),
          rd |-> [rd EXCEPT !.pos = @ + 1, !.lineno = @ + 1]]

\* PushBackFile.push(line)
PushBackFile_push(rd, line) ==
    [rd EXCEPT !.lineno = IF line # <<>> THEN @ - 1 ELSE @, !.stack = <<line>> \o @]

-----------------------------------------------------------------------------
(* ConfigFile.read.  read_helper runs one activation per (sub)section that   *)
(* is being parsed; a frame holds the locals of an activation, and path is   *)
(* the list of keys that leads from the tree read() was called on to the     *)
(* ConfigFile the activation runs on.                                        *)

RECURSIVE NodeAt(_, _)
NodeAt(c, path) == IF path = <<>> THEN c ELSE NodeAt(c.dict[Head(path)], Tail(path))

RECURSIVE PutAt(_, _, _)
PutAt(c, path, node) ==
    IF path = <<>> THEN node
    ELSE [c EXCEPT !.dict[Head(path)] = PutAt(@, Tail(path), node)]

\* the locals of read_helper(fp, indent) on entry
read_helper_frame(path, indent) ==
    [path |-> path, indent |-> indent, section_comment_open |-> FALSE,
     key |-> PyNone, comments |-> <<>>, section |-> <<>>]

\* the loop of read(): delattr(self, v) for each v of self.__values, from the
\* i-th on; it removes the attribute and leaves __values and the comments
RECURSIVE read_delattr(_, _)
read_delattr(c, i) ==
    IF i > Len(c.values) THEN [cfg |-> c, ret |-> PyNone]
    ELSE IF c.values[i] \notin DOMAIN c.dict THEN [cfg |-> c, ret |-> Exc("AttributeError")]
    ELSE read_delattr([c EXCEPT !.dict = DictDel(@, c.values[i])], i + 1)

\* the "key value combination" branch of read_helper
read_helper_keyvalue(node, fr, right) ==
    LET hasEq == Contains(right, "=")
        val0 == IF hasEq THEN SplitAfter(right, "=") ELSE <<>>
        extra == hasEq /\ Contains(val0, "#")
        key == IF hasEq THEN SplitBefore(right, "=") ELSE right
        val == IF extra THEN SplitBefore(right, "#") ELSE val0
        comments == IF extra THEN Append(fr.comments, SplitAfter(right, "#")) ELSE fr.comments
        set == ConfigFile_setitem(node, Strip(key), PyStr(Strip(val)))
    IN  [node |-> [set EXCEPT !.comments = DictPut(@, Strip(key), comments)],
         fr |-> [fr EXCEPT !.key = PyStr(key), !.comments = <<>>]]

\* the "multi line values" branch of read_helper
read_helper_continuation(node, fr, right) ==
    LET k == Strip(fr.key.v)
        got == ConfigFile_getitem(node, k)
        set == ConfigFile_setitem(got.cfg, k, PyStr(got.ret.v \o <<" ">> \o right))
    IN  IF IsExc(got.ret) THEN [node |-> node, fr |-> fr, exc |-> got.ret]
        ELSE IF got.ret.t # "str" THEN [node |-> got.cfg, fr |-> fr, exc |-> Exc("TypeError")]
        ELSE [node |-> [set EXCEPT !.comments[k] = @ \o fr.comments],
              fr |-> [fr EXCEPT !.comments = <<>>], exc |-> PyNone]

\* the body of the loop "for line in fp" of read_helper, on the ConfigFile
\* node: ctl tells how the loop goes on ("continue", "return", "peek" for
\* the look-ahead after a section header, "raise" with the exception exc)
read_helper_line(node, fr, rd, line) ==
    LET right == LStripSet(line, Blank)
        left == SubSeq(line, 1, Len(line) - Len(right))
        same == [node |-> node, fr |-> fr, rd |-> rd, ctl |-> "continue", exc |-> PyNone]
        raise(exc) == [same EXCEPT !.ctl = "raise", !.exc = exc]
    IN  IF right = <<>> THEN same
        ELSE IF StartsWith(right, <<"#">>) THEN
            IF StartsWith(right, Hashes(5))
            THEN [same EXCEPT !.fr.section_comment_open = ~@]
            ELSE IF fr.section_comment_open
            THEN [same EXCEPT !.node.section_comment = Append(@, StripSet(Tail(right), {" ", "#"}))]
            ELSE [same EXCEPT !.fr.comments = Append(@, StripSet(right, {" ", "#"}))]
        ELSE IF Len(left) < Len(fr.indent)
        THEN [same EXCEPT !.rd = PushBackFile_push(rd, line), !.ctl = "return"]
        ELSE IF Len(left) > Len(fr.indent) THEN
            IF fr.key = PyNone \/ fr.key.v = <<>>
            THEN raise(Exc("ValueError"))
            ELSE LET r == read_helper_continuation(node, fr, right)
                 IN  [node |-> r.node, fr |-> r.fr, rd |-> rd,
                      ctl |-> IF IsExc(r.exc) THEN "raise" ELSE "continue", exc |-> r.exc]
        ELSE IF right[Len(right)] = ":" THEN
            LET section == Strip(SubSeq(right, 1, Len(right) - 1))
            IN  IF section = <<>> THEN raise(Exc("ValueError"))
                ELSE [node |-> ConfigFile_setitem(node, section, ConfigFile_init(TRUE, <<>>)),
                      fr |-> [fr EXCEPT !.comments = <<>>, !.section = section],
                      rd |-> rd, ctl |-> "peek", exc |-> PyNone]
        ELSE LET r == read_helper_keyvalue(node, fr, right)
             IN  [node |-> r.node, fr |-> r.fr, rd |-> rd, ctl |-> "continue", exc |-> PyNone]

\* the variables of the file operations while the settings object is at work
NoFileOperation ==
    /\ cfg = PyNone
    /\ peer = PyNone
    /\ text = <<>>
    /\ reader = PushBackFile_init
    /\ frames = <<>>
    /\ phase = "idle"
    /\ ret = PyNone

-----------------------------------------------------------------------------
(* The settings object in use.  A behaviour exercises one key of the class   *)
(* (the resolvers of the model read no other key): the key of the first      *)
(* call, in any letter case.  The user file tree, the environment values and *)
(* the file configs start with what the files and the environment hold for   *)
(* that key; the options and the nosave dict start empty, as built by        *)
(* BaseSettings.__init__.                                                    *)

DeclaredKeys == DOMAIN Defaults.d
\* the keys a behaviour may exercise
FocusKeys == {k_int, k_bool, k_tmp, k_fixed}
\* a key as the caller writes it
KeyForms(k) == {k, Upper(k)}

\* raw texts a source can hold for key k; source i of the chain holds the
\* i-th one, so that the source a value was read from shows in the result
BoolTexts == <<<<"n","o">>, <<"y","e","s">>, <<"0">>, <<"1">>, <<"n">>, <<"y">>,
               <<"F","a","l","s","e">>, <<"T","r","u","e">>>>
SourceText(k, i) ==
    IF k = k_bool THEN BoolTexts[((i - 1) % Len(BoolTexts)) + 1] ELSE IntStr(3 + i)

\* a ConfigFile holding at most the one key k
OneKeyFile(autogrown, k, present, raw) ==
    IF present THEN ConfigFile_setitem(ConfigFile_init(autogrown, <<>>), k, PyStr(raw))
    ELSE ConfigFile_init(autogrown, <<>>)

\* the values set() is called with
SetValues ==
    {PyInt(n) : n \in 0..MaxInt}
    \cup {PyBool(TRUE), PyStr(<<"n","o">>), PyStr(<<"j","u","n","k">>)}

\* the argument dicts of set_options, as lists of items
OptionArgs(k) ==
    {<<>>, <<[key |-> k, value |-> PyStr(SourceText(k, 1))]>>,
     <<[key |-> Upper(k), value |-> IF k = k_bool THEN PyBool(TRUE) ELSE PyInt(MaxInt + 1)]>>}

Snapshot == [options |-> options, userconfig |-> userconfig, nosave |-> nosave,
             envconfig |-> envconfig, fileconfigs |-> fileconfigs]

Init ==
    \E k \in FocusKeys :
        /\ NoFileOperation
        /\ options = PyDict(EmptyDict)
        /\ \E present \in BOOLEAN : userconfig = OneKeyFile(TRUE, k, present, SourceText(k, 2))
        /\ nosave = PyDict(EmptyDict)
        /\ proxies = <<>>
        /\ \E present \in BOOLEAN :
               envconfig = PyDict(IF present THEN DictPut(EmptyDict, k, PyStr(SourceText(k, 4)))
                                  ELSE EmptyDict)
        /\ \E n \in 0..MaxFileConfigs : \E present \in [1..n -> BOOLEAN] :
               fileconfigs = [i \in 1..n |-> OneKeyFile(FALSE, k, present[i], SourceText(k, 4 + i))]
        /\ last = [op |-> "init", key |-> k, arg |-> PyNone, ret |-> PyNone, cb |-> <<>>,
                   pre |-> [options |-> PyDict(EmptyDict), userconfig |-> userconfig,
                            nosave |-> nosave, envconfig |-> envconfig,
                            fileconfigs |-> fileconfigs]]

\* the key the behaviour exercises
Focus == Lower(last.key)

\* settings.get(key)
Get(key) ==
    /\ last' = [op |-> "get", key |-> key, arg |-> PyNone, ret |-> Section_get(key),
                cb |-> <<>>, pre |-> Snapshot]
    /\ UNCHANGED <<options, userconfig, nosave, envconfig, fileconfigs, proxies>>
    /\ UNCHANGED fvars

\* settings.set(key, value)
Set(key, value) ==
    LET r == Section_set(key, value)
    IN  /\ userconfig' = r.uc
        /\ nosave' = r.ns
        /\ last' = [op |-> "set", key |-> key, arg |-> value, ret |-> r.ret,
                    cb |-> r.cb, pre |-> Snapshot]
        /\ UNCHANGED <<options, envconfig, fileconfigs, proxies>>
        /\ UNCHANGED fvars

\* del settings.KEY
DelAttr(key) ==
    LET r == Section_delattr(key)
    IN  /\ userconfig' = r.uc
        /\ nosave' = r.ns
        /\ last' = [op |-> "delattr", key |-> key, arg |-> PyNone, ret |-> r.ret,
                    cb |-> <<>>, pre |-> Snapshot]
        /\ UNCHANGED <<options, envconfig, fileconfigs, proxies>>
        /\ UNCHANGED fvars

\* settings.delele(key)
Delele(key) ==
    LET r == Section_delele(key)
    IN  /\ userconfig' = r.uc
        /\ nosave' = r.ns
        /\ last' = [op |-> "delele", key |-> key, arg |-> PyNone, ret |-> r.ret,
                    cb |-> <<>>, pre |-> Snapshot]
        /\ UNCHANGED <<options, envconfig, fileconfigs, proxies>>
        /\ UNCHANGED fvars

\* settings.set_options(args)
SetOptions(items) ==
    LET r == BaseSettings_set_options(items)
    IN  /\ ~IsExc(r)
        /\ options' = r
        /\ last' = [op |-> "set_options", key |-> last.key, arg |-> PyNone, ret |-> PyNone,
                    cb |-> <<>>, pre |-> Snapshot]
        /\ UNCHANGED <<userconfig, nosave, envconfig, fileconfigs, proxies>>
        /\ UNCHANGED fvars

Next ==
    \/ \E key \in KeyForms(Focus) : Get(key)
    \/ \E key \in KeyForms(Focus), value \in SetValues : Set(key, value)
    \/ DelAttr(Upper(Focus))
    \/ \E key \in KeyForms(Focus) : Delele(key)
    \/ \E items \in OptionArgs(Focus) : SetOptions(items)

Spec == Init /\ [][Next]_vars

-----------------------------------------------------------------------------
(* Claims about the settings object *)

Solid(k) == k \in DeclaredKeys /\ "solid" \in DOMAIN RawExtraOptions[k]
                /\ RawExtraOptions[k]["solid"] = PyBool(TRUE)
SaveDisabled(k) == k \in DeclaredKeys /\ "save" \in DOMAIN RawExtraOptions[k]
                       /\ RawExtraOptions[k]["save"] = PyBool(FALSE)
InFile(c, k) == k \in Range(c.values)

\* the value of k in the first source that contains k, in the order command
\* line options, user file, nosave store, environment, file configs, defaults
FirstSourceValue(S, k) ==
    IF k \in DOMAIN S.options.d THEN S.options.d[k]
    ELSE IF InFile(S.userconfig, k) THEN S.userconfig.dict[k]
    ELSE IF k \in DOMAIN S.nosave.d THEN S.nosave.d[k]
    ELSE IF k \in DOMAIN S.envconfig.d THEN S.envconfig.d[k]
    ELSE IF \E i \in DOMAIN S.fileconfigs : InFile(S.fileconfigs[i], k)
    THEN S.fileconfigs[SetMin({i \in DOMAIN S.fileconfigs : InFile(S.fileconfigs[i], k)})].dict[k]
    ELSE Defaults.d[k]

\* the number of sources, defaults apart, that hold k
SourcesHolding(S, k) ==
    Cardinality({n \in {"options", "nosave", "envconfig"} : k \in DOMAIN S[n].d})
    + (IF InFile(S.userconfig, k) THEN 1 ELSE 0)
    + Cardinality({i \in DOMAIN S.fileconfigs : InFile(S.fileconfigs[i], k)})

\* C1: get(k) of a declared key that is not solid returns the resolver's
\* decoding of the value held by the first source that contains k, in the
\* order options, user file, nosave store, environment, file configs in list
\* order, defaults.
C1_FirstSourceWins ==
    (last.op = "get" /\ Focus \in DeclaredKeys /\ ~Solid(Focus))
        => last.ret = Resolver_get(Focus, FirstSourceValue(Snapshot, Focus))

\* a get of a key that three or more sources hold
C1_Witness ==
    /\ last.op = "get" /\ Focus \in DeclaredKeys /\ ~Solid(Focus)
    /\ SourcesHolding(Snapshot, Focus) >= 3
    /\ ~IsExc(last.ret)

\* C2: a delete with default arguments (del settings.KEY, delele(key)) of a
\* key held by the user file tree or the nosave store removes it from both.
C2_DeleteRemoves ==
    (/\ last.op \in {"delattr", "delele"}
     /\ (InFile(last.pre.userconfig, Focus) \/ Focus \in DOMAIN last.pre.nosave.d))
        => (~InFile(userconfig, Focus) /\ Focus \notin DOMAIN nosave.d)

\* the values the bool resolver accepts
BoolChoices ==
    {PyBool(FALSE), PyBool(TRUE), PyInt(0), PyInt(1)}
    \cup {PyStr(s) : s \in {<<"F","a","l","s","e">>, <<"T","r","u","e">>, <<"0">>, <<"1">>,
                            <<"n","o">>, <<"y","e","s">>, <<"n">>, <<"y">>}}
\* value v fails the validation of key k
Invalid(k, v) == k = k_bool /\ v \notin BoolChoices

\* C3: a set with a value that fails validation ends with the validation
\* error, changes no source and invokes no callback.
C3_ValidationGate ==
    (last.op = "set" /\ Focus \in DeclaredKeys /\ Invalid(Focus, last.arg))
        => /\ last.ret = Exc("SettingsException")
           /\ Snapshot = last.pre
           /\ last.cb = <<>>

C3_Witness ==
    /\ last.op = "set" /\ Focus = k_bool /\ last.arg = PyStr(<<"j","u","n","k">>)
    /\ last.ret = Exc("SettingsException")

C5_CallbackOnce ==
    (last.op = "set" /\ Focus \in DeclaredKeys /\ ~Invalid(Focus, last.arg))
        => /\ Len(last.cb) = 1
           /\ Lower(last.cb[1].key) = Focus
           /\ last.cb[1].value = last.arg
           /\ last.cb[1].stored = IF SaveDisabled(Focus) THEN last.arg
                                  ELSE PyStr(Py_str(last.arg))

\* C6: get(k) of a solid key returns the declared default as it is, whatever
\* the sources hold and whatever was set before.
C6_SolidDefault ==
    (last.op = "get" /\ Solid(Focus)) => last.ret = Defaults.d[Focus]

\* a get of the solid key while the options and the user file tree hold it
C6_Witness ==
    /\ last.op = "get" /\ Solid(Focus)
    /\ Focus \in DOMAIN options.d
    /\ InFile(userconfig, Focus) /\ userconfig.dict[Focus] = PyStr(IntStr(MaxInt))
    /\ last.ret = PyStr(<<"3">>)

-----------------------------------------------------------------------------
(* The config file at work: a tree is written to a stream and the stream is *)
(* read back (SpecRoundTrip), or a hand-written stream is read into a tree  *)
(* that may already hold keys (SpecRead).  read() advances one line of the  *)
(* stream per step.                                                         *)

\* "key = value"
KeyValue(key, val) == key \o <<" ", "=", " ">> \o val

\* cfg[key] = val, then cfg.set_help(key, message) when there is a message
WithKey(c, key, val, message) ==
    LET set == ConfigFile_setitem(c, key, val)
    IN  IF message = <<>> THEN set ELSE [set EXCEPT !.comments = DictPut(@, key, message)]

\* the ConfigFile trees with the keys of names in the listed orders, each key
\* holding a scalar, with or without a comment, or one of the subtrees subs
TreesOver(orders, scalars, subs, helps) ==
    LET entries == {[val |-> PyStr(v), message |-> m] : v \in scalars, m \in {<<>>, <<<<"c">>>>}}
                   \cup {[val |-> sub, message |-> <<>>] : sub \in subs}
    IN  UNION {{LET with1 == IF Len(order) >= 1
                             THEN WithKey(ConfigFile_init(TRUE, help), order[1],
                                          e[1].val, e[1].message)
                             ELSE ConfigFile_init(TRUE, help)
                IN  IF Len(order) >= 2
                    THEN WithKey(with1, order[2], e[2].val, e[2].message)
                    ELSE with1
                : e \in [DOMAIN order -> entries], help \in helps}
               : order \in orders}

SectionHelps == {<<>>, <<<<"n", "o", "t", "e">>>>}
\* sections that hold scalars only
LeafSections == TreesOver({<<>>, <<<<"x">>>>, <<<<"x">>, <<"y">>>>}, {<<"1">>}, {}, SectionHelps)
\* sections that hold one section
MidSections == TreesOver({<<<<"s">>>>}, {<<"1">>}, LeafSections, {<<>>})
\* the trees that are written and read back
Trees == TreesOver({<<>>, <<<<"a">>>>, <<<<"b">>>>, <<<<"a">>, <<"b">>>>, <<<<"b">>, <<"a">>>>},
                   {<<"1">>}, LeafSections \cup MidSections, SectionHelps)

\* the lines of hand-written streams
L_keyvalue == KeyValue(<<"a">>, <<"1">>)
L_inline == KeyValue(<<"b">>, <<"2">>) \o <<" ", "#", " ", "c">>
L_section == <<"s", ":">>
L_indented == Spaces(2) \o KeyValue(<<"x">>, <<"3">>)
L_tabbed == <<"\t">> \o KeyValue(<<"y">>, <<"4">>)
L_comment == <<"#", " ", "p">>
L_deep == Spaces(4) \o <<"m">>
L_box == Hashes(5)
Lines == {L_keyvalue, L_inline, L_section, L_indented, L_tabbed, L_comment, L_deep,
          L_box, <<>>}

\* leading whitespace written with spaces, tabs and both
IndentForms ==
    {<<>>, Spaces(2), Spaces(4), <<"\t">>, <<" ", "\t">>, Spaces(8), <<"\t", "\t">>,
     <<"\t">> \o Spaces(4)}

\* the streams that are read: all of up to three lines, longer ones with
\* sections of varying indents, a boxed section comment and a line that
\* ends two nested sections, and a first line
\* followed by two lines under every form of leading whitespace
Texts ==
    {<<>>} \cup {<<l>> : l \in Lines} \cup {<<l, m>> : l, m \in Lines}
    \cup {<<l, m, n>> : l, m, n \in Lines}
    \cup {<<L_section, L_indented, <<"t", ":">>, L_tabbed, L_keyvalue>>,
          <<L_box, L_comment, L_box, L_comment, L_keyvalue>>,
          <<L_section, Spaces(2) \o <<"t", ":">>, L_deep, L_comment, L_keyvalue, L_inline>>}
    \cup {<<l, i \o m, j \o n>> :
              l \in {L_section, L_keyvalue}, i \in IndentForms, j \in IndentForms,
              m \in {KeyValue(<<"x">>, <<"3">>), <<"t", ":">>, <<"m">>},
              n \in {KeyValue(<<"x">>, <<"3">>), <<"t", ":">>, <<"m">>}}

\* the trees a stream is read into: a new one, and one that holds keys
PriorTrees ==
    {ConfigFile_init(TRUE, <<>>),
     WithKey(WithKey(ConfigFile_init(TRUE, <<>>), <<"a">>, PyStr(<<"0">>), <<>>),
             <<"z">>, PyStr(<<"9">>), <<<<"o", "l", "d">>>>)}

InitRoundTrip ==
    /\ options = PyDict(EmptyDict) /\ userconfig = ConfigFile_init(TRUE, <<>>)
    /\ nosave = PyDict(EmptyDict) /\ envconfig = PyDict(EmptyDict)
    /\ fileconfigs = <<>> /\ proxies = <<>>
    /\ peer \in Trees
    /\ cfg = ConfigFile_init(TRUE, <<>>)
    /\ last = [op |-> "init", pre |-> [cfg |-> cfg, peer |-> peer]]
    /\ text = <<>>
    /\ reader = PushBackFile_init
    /\ frames = <<>>
    /\ phase = "built"
    /\ ret = PyNone

InitRead ==
    /\ options = PyDict(EmptyDict) /\ userconfig = ConfigFile_init(TRUE, <<>>)
    /\ nosave = PyDict(EmptyDict) /\ envconfig = PyDict(EmptyDict)
    /\ fileconfigs = <<>> /\ proxies = <<>>
    /\ peer = PyNone
    /\ cfg \in PriorTrees
    /\ last = [op |-> "init", pre |-> [cfg |-> cfg, peer |-> peer]]
    /\ text \in Texts
    /\ reader = PushBackFile_init
    /\ frames = <<>>
    /\ phase = "written"
    /\ ret = PyNone

\* peer.write(fp)
Write ==
    /\ phase = "built"
    /\ text' = ConfigFile_write(peer)
    /\ phase' = "written"
    /\ UNCHANGED <<cfg, peer, reader, frames, ret>>
    /\ UNCHANGED svars

\* cfg.read(fp), up to the call of read_helper
Read ==
    /\ phase = "written"
    /\ LET r == read_delattr(cfg, 1)
       IN  /\ cfg' = r.cfg
           /\ ret' = r.ret
           /\ IF IsExc(r.ret)
              THEN phase' = "raised" /\ UNCHANGED <<reader, frames>>
              ELSE /\ phase' = "reading"
                   /\ reader' = PushBackFile_init
                   /\ frames' = <<read_helper_frame(<<>>, <<>>)>>
    /\ last' = [op |-> "read", pre |-> [cfg |-> cfg, peer |-> peer]]
    /\ UNCHANGED <<peer, text>>
    /\ UNCHANGED ovars

\* one round of "for line in fp" in the innermost activation of read_helper:
\* fp.next(), and the body of the loop up to the look-ahead of a section.
\* last.lineno is fp.lineno when next() has returned, last.at the position in
\* the stream of the line it returned: the lines on the stack are the last
\* lines read from the stream, the one read first on top (StackOfStream)
ReadLine ==
    /\ phase = "reading"
    /\ LET top == frames[Len(frames)]
           outer == SubSeq(frames, 1, Len(frames) - 1)
           nxt == PushBackFile_next(reader, text, TRUE)
           r == read_helper_line(NodeAt(cfg, top.path), top, nxt.rd, nxt.line)
           returns == nxt.stop \/ r.ctl = "return"
       IN  /\ reader' = IF nxt.stop THEN reader ELSE r.rd
           /\ cfg' = IF nxt.stop THEN cfg ELSE PutAt(cfg, top.path, r.node)
           /\ frames' = IF returns THEN outer ELSE Append(outer, r.fr)
           /\ phase' = IF returns THEN (IF outer = <<>> THEN "done" ELSE "reading")
                       ELSE IF r.ctl = "continue" THEN "reading"
                       ELSE IF r.ctl = "peek" THEN "peek"
                       ELSE "raised"
           /\ ret' = IF ~returns /\ r.ctl = "raise" THEN r.exc ELSE ret
           /\ last' = [op |-> "line", pre |-> last.pre, line |-> nxt.line,
                       ctl |-> IF nxt.stop THEN "stop" ELSE r.ctl,
                       lineno |-> nxt.rd.lineno,
                       at |-> IF reader.stack # <<>> THEN reader.pos - Len(reader.stack) + 1
                              ELSE reader.pos + 1]
    /\ UNCHANGED <<peer, text>>
    /\ UNCHANGED ovars

\* one round of the look-ahead loop after a section header, and on its break
\* the call of read_helper on the new section when the line is indented more
PeekLine ==
    /\ phase = "peek"
    /\ LET top == frames[Len(frames)]
           nxt == PushBackFile_next(reader, text, FALSE)
           newline == nxt.line
           pushed == PushBackFile_push(nxt.rd, newline)
           break == Strip(newline) # <<>> /\ ~StartsWith(Strip(newline), <<"#">>)
           group0 == SubSeq(newline, 1, Len(newline) - Len(LStripSet(newline, Blank)))
       IN  /\ IF nxt.stop
              THEN /\ phase' = "raised"
                   /\ ret' = Exc("StopIteration")
                   /\ UNCHANGED <<reader, frames>>
              ELSE /\ reader' = pushed
                   /\ phase' = IF break THEN "reading" ELSE "peek"
                   /\ frames' = IF break /\ Len(group0) > Len(top.indent)
                                THEN Append(frames,
                                            read_helper_frame(Append(top.path, top.section),
                                                              group0))
                                ELSE frames
                   /\ ret' = ret
           /\ last' = [op |-> "peek", pre |-> last.pre, line |-> newline,
                       ctl |-> IF nxt.stop THEN "stop" ELSE "push",
                       lineno |-> nxt.rd.lineno, at |-> reader.pos + 1]
    /\ UNCHANGED <<cfg, peer, text>>
    /\ UNCHANGED ovars

NextRoundTrip == Write \/ Read \/ ReadLine \/ PeekLine
SpecRoundTrip == InitRoundTrip /\ [][NextRoundTrip]_vars

\* the column that follows leading whitespace written from column col on: a
\* space takes one column, a tab leads to the next multiple of 4
RECURSIVE IndentColumn(_, _)
IndentColumn(line, col) ==
    IF line = <<>> \/ Head(line) \notin Blank THEN col
    ELSE IndentColumn(Tail(line), IF Head(line) = " " THEN col + 1 ELSE col + 4 - (col % 4))

\* streams a and b differ in how the leading whitespace of their lines is
\* written, and in nothing else: their lines have the same text, and the
\* columns of the lines of a are ordered as those of b, column 0 included
SameIndentation(a, b) ==
    /\ Len(a) = Len(b)
    /\ \A i \in DOMAIN a :
           /\ LStripSet(a[i], Blank) = LStripSet(b[i], Blank)
           /\ IndentColumn(a[i], 0) = 0 <=> IndentColumn(b[i], 0) = 0
           /\ \A j \in DOMAIN a :
                  IndentColumn(a[i], 0) < IndentColumn(a[j], 0)
                      <=> IndentColumn(b[i], 0) < IndentColumn(b[j], 0)

\* after a stream was read into a new tree: a stream that differs from it in
\* the writing of the leading whitespace is read into another new tree, and
\* peer keeps the first tree
ReadAgain ==
    /\ phase = "done"
    /\ peer = PyNone
    /\ ConfigFile_keys(last.pre.cfg) = <<>>
    /\ \E again \in Texts :
           /\ again # text
           /\ SameIndentation(again, text)
           /\ text' = again
    /\ peer' = cfg
    /\ cfg' = ConfigFile_init(TRUE, <<>>)
    /\ phase' = "written"
    /\ UNCHANGED <<reader, frames, ret>>
    /\ UNCHANGED svars

NextRead == Read \/ ReadLine \/ PeekLine \/ ReadAgain
SpecRead == InitRead /\ [][NextRead]_vars

\* the trees that are compared: up to two keys, each a scalar or a section
CompareSections ==
    {ConfigFile_init(TRUE, <<>>), ConfigFile_init(TRUE, <<<<"n", "o", "t", "e">>>>),
     WithKey(ConfigFile_init(TRUE, <<>>), <<"x">>, PyStr(<<"1">>), <<>>),
     WithKey(ConfigFile_init(TRUE, <<>>), <<"x">>, PyStr(<<"2">>), <<>>)}
CompareTrees ==
    TreesOver({<<>>, <<<<"x">>>>, <<<<"x">>, <<"y">>>>, <<<<"y">>, <<"x">>>>},
              {<<"1">>, <<"2">>}, CompareSections, {<<>>})

InitCompare ==
    /\ options = PyDict(EmptyDict) /\ userconfig = ConfigFile_init(TRUE, <<>>)
    /\ nosave = PyDict(EmptyDict) /\ envconfig = PyDict(EmptyDict)
    /\ fileconfigs = <<>> /\ proxies = <<>>
    /\ cfg \in CompareTrees
    /\ peer \in CompareTrees
    /\ last = [op |-> "init", pre |-> [cfg |-> cfg, peer |-> peer]]
    /\ text = <<>>
    /\ reader = PushBackFile_init
    /\ frames = <<>>
    /\ phase = "built"
    /\ ret = PyNone

\* cfg == peer
Equal ==
    /\ phase = "built"
    /\ LET r == ConfigFile_eq(cfg, peer)
       IN  /\ ret' = r.ret
           /\ peer' = r.other
    /\ last' = [op |-> "eq", pre |-> [cfg |-> cfg, peer |-> peer]]
    /\ phase' = "compared"
    /\ UNCHANGED <<cfg, text, reader, frames>>
    /\ UNCHANGED ovars

NextCompare == Equal
SpecCompare == InitCompare /\ [][NextCompare]_vars

-----------------------------------------------------------------------------
(* Claims about the config file *)

\* the comment lines of key k in tree c, as help(k) joins them
HelpLines(c, k) == IF k \in DOMAIN c.comments THEN c.comments[k] ELSE <<>>

\* trees a and b hold the same keys in the same order, and the same values
\* and comments at every depth
RECURSIVE SameTree(_, _)
SameTree(a, b) ==
    /\ a.values = b.values
    /\ a.section_comment = b.section_comment
    /\ \A k \in Range(a.values) :
           /\ k \in DOMAIN a.dict /\ k \in DOMAIN b.dict
           /\ HelpLines(a, k) = HelpLines(b, k)
           /\ a.dict[k].t = b.dict[k].t
           /\ IF a.dict[k].t = "cfg" THEN SameTree(a.dict[k], b.dict[k])
              ELSE a.dict[k] = b.dict[k]

ReadEnded == phase \in {"done", "raised"}

\* C7: a tree that is written and read back into a new tree gives a tree with
\* the same keys in the same order and the same values at every depth, the
\* same comment of every key and the same section comment of every section,
\* whatever the position of a section without keys
C7_RoundTrip == ReadEnded => phase = "done" /\ SameTree(cfg, peer)

\* the keys that the lines of a stream define at the top level, in the order
\* of their first definition
RECURSIVE StreamKeys(_, _, _)
StreamKeys(lines, i, keys) ==
    IF i > Len(lines) THEN keys
    ELSE LET line == RStrip(lines[i])
             name == IF line[Len(line)] = ":" THEN Strip(SubSeq(line, 1, Len(line) - 1))
                     ELSE IF Contains(line, "=") THEN Strip(SplitBefore(line, "="))
                     ELSE line
         IN  IF line = <<>> \/ line[1] \in {" ", "\t", "#"} \/ name \in Range(keys)
             THEN StreamKeys(lines, i + 1, keys)
             ELSE StreamKeys(lines, i + 1, Append(keys, name))

\* the streams that hold comment lines and then "b = 2 # c"
InlineTexts == {<<L_inline>>, <<L_comment, L_inline>>, <<L_comment, L_comment, L_inline>>}

\* C9: a line "key = value # text" stores the value part only under the key
\* and makes the text after the # the last comment line of the key, after the
\* comment lines that came before the line
C9_InlineComment ==
    phase = "done" /\ text \in InlineTexts =>
        /\ <<"b">> \in DOMAIN cfg.dict
        /\ cfg.dict[<<"b">>] = PyStr(<<"2">>)
        /\ Len(HelpLines(cfg, <<"b">>)) = Len(text)
        /\ \A i \in DOMAIN text :
               Strip(HelpLines(cfg, <<"b">>)[i]) = IF i < Len(text) THEN <<"p">> ELSE <<"c">>

\* C10: after a read into a tree that held keys, keys() lists the keys that
\* the stream defines and no other, and each of them can be read
C10_ReadDiscards ==
    phase = "done" /\ ConfigFile_keys(last.pre.cfg) # <<>> =>
        /\ ConfigFile_keys(cfg) = StreamKeys(text, 1, <<>>)
        /\ \A k \in Range(ConfigFile_keys(cfg)) : ~IsExc(ConfigFile_getitem(cfg, k).ret)

\* trees a and b hold the same keys, and equal values at every depth
RECURSIVE EqualTrees(_, _)
EqualTrees(a, b) ==
    /\ Range(a.values) = Range(b.values)
    /\ \A k \in Range(a.values) :
           /\ a.dict[k].t = b.dict[k].t
           /\ IF a.dict[k].t = "cfg" THEN EqualTrees(a.dict[k], b.dict[k])
              ELSE a.dict[k] = b.dict[k]

\* C8: cfg == peer is True exactly when the two trees hold the same set of
\* keys and equal values under every key, sections compared recursively,
\* whatever their comments
C8_Equality ==
    phase = "compared" =>
        /\ ret \in {PyBool(TRUE), PyBool(FALSE)}
        /\ ret = PyBool(TRUE) <=> EqualTrees(last.pre.cfg, last.pre.peer)

\* C11: a stream that differs from another one only in how the leading
\* whitespace is written (tabs or the spaces up to the next multiple of 4)
\* is read to the same tree: same keys, order, values and nesting
C11_IndentationTolerance ==
    ReadEnded /\ peer # PyNone => phase = "done" /\ cfg = peer

\* a stream with a tab, read after its variant, to a tree with a section that
\* holds a key
C11_Witness ==
    /\ phase = "done" /\ peer # PyNone
    /\ \E i \in DOMAIN text : Contains(text[i], "\t")
    /\ <<"s">> \in DOMAIN cfg.dict /\ cfg.dict[<<"s">>].t = "cfg"
    /\ ConfigFile_keys(cfg.dict[<<"s">>]) # <<>>

\* a line that is neither blank nor a comment
Substantive(line) ==
    LStripSet(RStrip(line), Blank) # <<>> /\ Head(LStripSet(line, Blank)) # "#"
IsHeader(line) == RStrip(line)[Len(RStrip(line))] = ":"
\* the key that a line defines
LineKey(line) ==
    LET right == LStripSet(RStrip(line), Blank)
    IN  IF IsHeader(line) THEN Strip(SubSeq(right, 1, Len(right) - 1))
        ELSE IF Contains(right, "=") THEN Strip(SplitBefore(right, "="))
        ELSE right

\* the nearest section header before line i of stream t that is indented
\* less than line i, 0 when there is none
Owner(t, i) ==
    LET headers == {j \in 1..(i - 1) : /\ Substantive(t[j]) /\ IsHeader(t[j])
                                       /\ IndentColumn(t[j], 0) < IndentColumn(t[i], 0)}
    IN  IF headers = {} THEN 0 ELSE SetMax(headers)

\* the keys that lead to the section of line i
RECURSIVE PathOf(_, _)
PathOf(t, i) ==
    IF Owner(t, i) = 0 THEN <<>>
    ELSE Append(PathOf(t, Owner(t, i)), LineKey(t[Owner(t, i)]))

KeyLines(t) == {i \in DOMAIN t : Substantive(t[i])}

\* stream t is indented consistently: a line outside of every section is not
\* indented, a line of a section is indented as the first line of the
\* section, and no line defines a key that another line defines
Consistent(t) ==
    /\ \A i \in KeyLines(t) :
           LET o == Owner(t, i)
           IN  IF o = 0 THEN IndentColumn(t[i], 0) = 0
               ELSE \A j \in KeyLines(t) :
                        o < j /\ j < i => IndentColumn(t[j], 0) >= IndentColumn(t[i], 0)
    /\ \A i, j \in KeyLines(t) :
           i # j => <<PathOf(t, i), LineKey(t[i])>> # <<PathOf(t, j), LineKey(t[j])>>

\* path leads through sections of tree c
RECURSIVE HasPath(_, _)
HasPath(c, path) ==
    \/ path = <<>>
    \/ /\ Head(path) \in DOMAIN c.dict
       /\ c.dict[Head(path)].t = "cfg"
       /\ HasPath(c.dict[Head(path)], Tail(path))

\* the number of keys of tree c, those of its sections included
RECURSIVE CountKeys(_, _)
CountKeys(c, i) ==
    IF i > Len(c.values) THEN 0
    ELSE 1 + CountKeys(c, i + 1)
           + (IF c.dict[c.values[i]].t = "cfg" THEN CountKeys(c.dict[c.values[i]], 1) ELSE 0)

-----------------------------------------------------------------------------
(* resolvers.py: the SyncList and SyncDict proxies that get() returns for a  *)
(* list and a dict key.  A proxy holds the key it was read for and its own   *)
(* copy of the contents (_l, _d); every call below is made on one proxy.     *)

\* ListSettingsResolver._raw: json.dumps of the raw texts of the items
ListSettingsResolver__raw(values) ==
    json_dumps(PyList([i \in DOMAIN values |-> PyStr(Resolver_raw(k_int, values[i]))]))

\* DictSettingsResolver._raw
DictSettingsResolver__raw(value) == json_dumps(value)

\* a __sync that leaves the user file tree alone
SyncList_sync_never(uc, p) == uc

\* SyncList.__sync and SyncDict.__sync of proxy p: the user file tree uc
\* afterwards (the list resolver of the model has no sort function)
SyncList_sync(uc, p) ==
    ConfigFile_setitem(uc, Lower(p.key),
        PyStr(IF p.t = "SyncList" THEN ListSettingsResolver__raw(p.l)
              ELSE DictSettingsResolver__raw(p.d)))

\* the methods of SyncList that change the list, called on proxy p with the
\* index n and the object v: the list afterwards, whether __sync was reached
\* and the outcome
SyncList_call(p, m, n, v) ==
    LET l == p.l
        item == IntSettingsResolver_get(v)
        at == IF n > Len(l) THEN Len(l) ELSE n
        where == {i \in DOMAIN l : PyEq(l[i], item)}
        without(i) == SubSeq(l, 1, i - 1) \o SubSeq(l, i + 1, Len(l))
        raised(e) == [l |-> l, sync |-> FALSE, ret |-> e]
        done(l2, r) == [l |-> l2, sync |-> TRUE, ret |-> r]
    IN  CASE m = "append" ->
               IF IsExc(item) THEN raised(item) ELSE done(Append(l, item), PyNone)
          [] m = "insert" ->
               IF IsExc(item) THEN raised(item)
               ELSE done(SubSeq(l, 1, at) \o <<item>> \o SubSeq(l, at + 1, Len(l)), PyNone)
          [] m = "pop" ->
               IF l = <<>> THEN raised(Exc("IndexError"))
               ELSE done(SubSeq(l, 1, Len(l) - 1), l[Len(l)])
          [] m = "remove" ->
               IF IsExc(item) THEN raised(item)
               ELSE IF where = {} THEN raised(Exc("ValueError"))
               ELSE done(without(SetMin(where)), PyNone)
          [] m = "__setitem__" ->
               IF IsExc(item) THEN raised(item)
               ELSE IF n >= Len(l) THEN raised(Exc("IndexError"))
               ELSE done([l EXCEPT ![n + 1] = item], PyNone)
          [] m = "__delitem__" ->
               IF n >= Len(l) THEN raised(Exc("IndexError"))
               ELSE done(without(n + 1), PyNone)

\* the methods of SyncDict that change the dict, called on proxy p with the
\* key and the value: the dict afterwards, whether __sync was reached and
\* the outcome
SyncDict_call(p, m, key, value) ==
    LET d == p.d.d
        raised(e) == [d |-> p.d, sync |-> FALSE, ret |-> e]
        done(d2, r) == [d |-> PyDict(d2), sync |-> TRUE, ret |-> r]
    IN  CASE m = "__setitem__" -> done(DictPut(d, key, value), PyNone)
          [] m = "__delitem__" ->
               IF key \notin DOMAIN d THEN raised(Exc("KeyError"))
               ELSE done(DictDel(d, key), PyNone)
          [] m = "update" -> done(DictPut(d, key, value), PyNone)
          [] m = "clear" -> done(EmptyDict, PyNone)
          [] m = "pop" ->
               IF key \in DOMAIN d THEN done(DictDel(d, key), d[key]) ELSE done(d, PyNone)

-----------------------------------------------------------------------------
(* The proxies at work: a behaviour exercises the list key or the dict key   *)
(* of the class.  The user file tree starts without the key or with a text   *)
(* for it; get() hands out proxies, at most two, and the methods are called  *)
(* on them in any order.                                                     *)

\* the longest list
MaxLen == MaxInt
\* the proxies of a behaviour: the first and the second one that get() made
ProxySlots == {1, 2}

\* the texts the user file can hold for the key at the start
ProxyTexts(k) ==
    IF Resolvers[k] = "list"
    THEN {<<"[", "\"", "0", "\"", "]">>, <<"[", "1", ",", " ", "0", "]">>, <<"x">>}
    ELSE {<<"{", "\"", "h", "\"", ":", " ", "\"", "2", "\"", "}">>, <<"x">>}

ListMethods == {"append", "insert", "pop", "remove", "__setitem__", "__delitem__"}
DictMethods == {"__setitem__", "__delitem__", "update", "clear", "pop"}
\* the objects the list methods are called with
ListArgs == {PyInt(MaxInt), PyStr(<<"0">>), PyStr(<<"j","u","n","k">>)}
\* the keys and the values the dict methods are called with
DictKeys == {<<"g">>, <<"h">>}
DictArgs == {PyStr(<<"2">>), PyInt(MaxInt)}

InitProxy ==
    \E k \in {k_list, k_dict} :
        /\ NoFileOperation
        /\ options = PyDict(EmptyDict)
        /\ userconfig \in {OneKeyFile(TRUE, k, FALSE, <<>>)}
                          \cup {OneKeyFile(TRUE, k, TRUE, raw) : raw \in ProxyTexts(k)}
        /\ nosave = PyDict(EmptyDict)
        /\ envconfig = PyDict(EmptyDict)
        /\ fileconfigs = <<>>
        /\ proxies = <<>>
        /\ last = [op |-> "init", key |-> k, proxy |-> 0, ret |-> PyNone]

\* p = settings.get(key)
GetProxy(key) ==
    LET r == Section_get(key)
    IN  /\ Len(proxies) + 1 \in ProxySlots
        /\ proxies' = IF IsExc(r) THEN proxies ELSE Append(proxies, r)
        /\ last' = [op |-> "get", key |-> last.key,
                    proxy |-> IF IsExc(r) THEN 0 ELSE Len(proxies) + 1, ret |-> r,
                    pre |-> userconfig]
        /\ UNCHANGED <<options, userconfig, nosave, envconfig, fileconfigs>>
        /\ UNCHANGED fvars

\* p.append(v), p.insert(n, v), p.pop(), p.remove(v), p[n] = v, del p[n]
\* on the i-th proxy
ListCall(i, m, n, v) ==
    LET p == proxies[i]
        r == SyncList_call(p, m, n, v)
        p2 == [p EXCEPT !.l = r.l]
    IN  /\ p.t = "SyncList"
        /\ Len(r.l) <= MaxLen
        /\ proxies' = [proxies EXCEPT ![i] = p2]
        /\ userconfig' = IF r.sync THEN SyncList_sync(userconfig, p2) ELSE userconfig
        /\ last' = [op |-> m, key |-> last.key, proxy |-> i, ret |-> r.ret,
                    pre |-> userconfig]
        /\ UNCHANGED <<options, nosave, envconfig, fileconfigs>>
        /\ UNCHANGED fvars

\* p[key] = value, del p[key], p.update({key: value}), p.clear(), p.pop(key)
\* on the i-th proxy
DictCall(i, m, key, value) ==
    LET p == proxies[i]
        r == SyncDict_call(p, m, key, value)
        p2 == [p EXCEPT !.d = r.d]
    IN  /\ p.t = "SyncDict"
        /\ proxies' = [proxies EXCEPT ![i] = p2]
        /\ userconfig' = IF r.sync THEN SyncList_sync(userconfig, p2) ELSE userconfig
        /\ last' = [op |-> m, key |-> last.key, proxy |-> i, ret |-> r.ret,
                    pre |-> userconfig]
        /\ UNCHANGED <<options, nosave, envconfig, fileconfigs>>
        /\ UNCHANGED fvars

NextProxy ==
    \/ \E key \in KeyForms(Lower(last.key)) : GetProxy(key)
    \/ \E i \in DOMAIN proxies, m \in ListMethods :
           \E n \in IF m \in {"insert", "__setitem__", "__delitem__"} THEN 0..MaxLen ELSE {0},
              v \in IF m \in {"pop", "__delitem__"} THEN {PyNone} ELSE ListArgs :
               ListCall(i, m, n, v)
    \/ \E i \in DOMAIN proxies, m \in DictMethods :
           \E key \in IF m = "clear" THEN {<<>>} ELSE DictKeys,
              value \in IF m \in {"__setitem__", "update"} THEN DictArgs ELSE {PyNone} :
               DictCall(i, m, key, value)

SpecProxy == InitProxy /\ [][NextProxy]_vars

\* C13: after every mutating operation on a list or dict proxy returned by
\* get(k) (append, insert, pop, remove, item assignment or deletion, update,
\* clear), the user file tree's entry for k is the resolver's encoding of the
\* proxy's current contents, and decodes to them, without any set call.
C13_ProxySync ==
    (last.op \in ListMethods \cup DictMethods /\ ~IsExc(last.ret)) =>
        LET p == proxies[last.proxy]
            stored == userconfig.dict[p.key]
        IN  /\ InFile(userconfig, p.key)
            /\ IF p.t = "SyncList"
               THEN /\ stored = PyStr(ListSettingsResolver__raw(p.l))
                    /\ ListSettingsResolver_get(p.key, stored) = p
               ELSE /\ stored = PyStr(DictSettingsResolver__raw(p.d))
                    /\ DictSettingsResolver_get(p.key, stored) = p

\* an append of "0" to the list [1] read from the defaults: the user file
\* tree holds the text ["1", "0"]
C13_Witness ==
    /\ last.op = "append" /\ ~IsExc(last.ret)
    /\ proxies[last.proxy].l = <<PyInt(1), PyInt(0)>>
    /\ userconfig.dict[k_list]
           = PyStr(<<"[", "\"", "1", "\"", ",", " ", "\"", "0", "\"", "]">>)


-----------------------------------------------------------------------------
(* The subsections at work: get, set, has and set_options are called on the  *)
(* root object with plain and dotted keys in several letter cases.  Every    *)
(* access to a subsection builds a new instance of it from the root's        *)
(* sources; the root starts as BaseSettings.__init__ builds it, its user     *)
(* file tree empty or read from a file that holds the subsection.            *)

\* the root settings object, as an instance over the state
RootSection ==
    [t |-> "Section", cls |-> "Settings", options |-> options, userconfig |-> userconfig,
     nosave |-> nosave, envconfig |-> envconfig, fileconfigs |-> fileconfigs]

\* "a.b.c"
Dotted(parts) == Join(<<".">>, parts)

\* the paths of the declared keys that the behaviours exercise
DeclaredPaths == {<<k_int>>, <<k_section, k_hello>>, <<k_section, k_inner, k_deep>>}
\* a declared key as the caller writes it: lower case, upper case, and with
\* the sections in upper case before a lower-case name
WrittenForms(p) ==
    {Dotted(p), Upper(Dotted(p)),
     Dotted([i \in DOMAIN p |-> IF i < Len(p) THEN Upper(p[i]) ELSE p[i]])}
\* keys that name nothing: an undeclared name, an undeclared section, a
\* path through a key that is no section
UndeclaredKeys ==
    {k_hello, Dotted(<<k_tmp \o k_tmp, k_hello>>), Dotted(<<k_int, k_hello>>),
     Dotted(<<k_section, k_int>>)}
\* the keys of a behaviour that exercises the declared path p
SectionKeys(p) == WrittenForms(p) \cup UndeclaredKeys

\* the argument dicts of set_options, as lists of items in the order of the
\* loop
SectionOptionArgs ==
    LET item(parts, n) == [key |-> Dotted(parts), value |-> PyInt(n)]
        up(k) == Upper(k)
    IN  {<<>>,
         <<item(<<k_section, k_hello>>, 3)>>,
         <<item(<<up(k_section), up(k_hello)>>, 3)>>,
         <<item(<<k_section, k_inner, k_deep>>, 4)>>,
         <<item(<<k_section, k_hello>>, 3), item(<<k_section, k_inner, k_deep>>, 4)>>,
         <<item(<<k_section, k_inner, k_deep>>, 4), item(<<k_section, k_hello>>, 3)>>,
         <<item(<<up(k_section), k_hello>>, 3), item(<<up(k_section), k_inner, k_deep>>, 4)>>,
         <<item(<<up(k_int)>>, 3), item(<<k_section, up(k_hello)>>, 4)>>}

\* the user file trees at the start
SectionUserFiles ==
    {ConfigFile_init(TRUE, <<>>),
     ConfigFile_setitem(ConfigFile_init(TRUE, <<>>), k_section,
         ConfigFile_setitem(ConfigFile_init(TRUE, <<>>), k_hello, PyStr(<<"7">>)))}

InitSection ==
    /\ NoFileOperation
    /\ options = PyDict(EmptyDict)
    /\ userconfig \in SectionUserFiles
    /\ nosave = PyDict(EmptyDict)
    /\ envconfig = PyDict(EmptyDict)
    /\ fileconfigs = <<>>
    /\ proxies = <<>>
    /\ \E p \in DeclaredPaths :
           last = [op |-> "init", key |-> <<>>, arg |-> PyNone, ret |-> PyNone,
                   wrote |-> PyNone, focus |-> p]

\* last.focus is the declared path the behaviour exercises; last.wrote the
\* value of the last set of that path, in any written form, that went past
\* its assignment to the user file tree

\* the sources of the root become those of instance self
Becomes(self) ==
    /\ options' = self.options
    /\ userconfig' = self.userconfig
    /\ nosave' = self.nosave
    /\ envconfig' = self.envconfig
    /\ fileconfigs' = self.fileconfigs

\* settings.get(key); get('SECTION.HELLO') is settings.SECTION.HELLO
GetKey(key) ==
    LET returns(r) ==
            /\ Becomes(r.self)
            /\ last' = [op |-> "get", key |-> key, arg |-> PyNone, ret |-> r.ret,
                        wrote |-> last.wrote, focus |-> last.focus]
    IN  /\ returns(Section_get_on(RootSection, key))
        /\ UNCHANGED proxies
        /\ UNCHANGED fvars

\* settings.set(key, value); set('SECTION.HELLO', v) is settings.SECTION.HELLO = v
SetKey(key, value) ==
    LET returns(r) ==
            /\ Becomes(r.self)
            /\ last' = [op |-> "set", key |-> key, arg |-> value, ret |-> r.ret,
                        wrote |-> IF key \in WrittenForms(last.focus)
                                     /\ r.ret \in {PyNone, Exc("UnboundLocalError")}
                                  THEN value ELSE last.wrote,
                        focus |-> last.focus]
    IN  /\ returns(Section_set_on(RootSection, key, value))
        /\ UNCHANGED proxies
        /\ UNCHANGED fvars

\* settings.has(key)
HasKey(key) ==
    /\ last' = [op |-> "has", key |-> key, arg |-> PyNone, ret |-> Section_has(RootSection, key),
                wrote |-> last.wrote, focus |-> last.focus]
    /\ UNCHANGED ovars
    /\ UNCHANGED fvars

\* settings.set_options(args)
SetOptionsOf(items) ==
    LET r == BaseSettings_set_options(items)
    IN  /\ ~IsExc(r)
        /\ options' = r
        /\ last' = [op |-> "set_options", key |-> <<>>, arg |-> items, ret |-> PyNone,
                    wrote |-> last.wrote, focus |-> last.focus]
        /\ UNCHANGED <<userconfig, nosave, envconfig, fileconfigs, proxies>>
        /\ UNCHANGED fvars

NextSection ==
    \/ \E key \in SectionKeys(last.focus) : GetKey(key)
    \/ \E key \in SectionKeys(last.focus), value \in {PyInt(n) : n \in 0..MaxInt} :
           SetKey(key, value)
    \/ \E key \in SectionKeys(last.focus) : HasKey(key)
    \/ \E items \in SectionOptionArgs : SetOptionsOf(items)

SpecSection == InitSection /\ [][NextSection]_vars


RECURSIVE StoredAt(_, _)
\* what tree c holds under the path of keys, or None
StoredAt(c, path) ==
    IF path = <<>> THEN c
    ELSE IF c.t # "cfg" \/ Head(path) \notin DOMAIN c.dict THEN PyNone
    ELSE StoredAt(c.dict[Head(path)], Tail(path))

\* no command-line option is set: the options hold at most the empty dicts
\* that the access to a subsection leaves
OptionsSilent == \A k \in DOMAIN options.d : options.d[k] = PyDict(EmptyDict)

C15_SetLikeGet ==
    (last.op = "set" /\ last.key \in WrittenForms(last.focus)) =>
        StoredAt(userconfig, last.focus) = PyStr(Py_str(last.arg))

\* C16: has(key) returns True when get(key) finds the key and False when it
\* does not, for keys in any letter case and for dotted paths, and never
\* raises.
C16_HasLikeGet ==
    last.op = "has" =>
        last.ret = PyBool(~IsExc(Section_get_on(RootSection, last.key).ret))


\* C19: after set_options(m) the options hold nothing but the entries of m,
\* and every entry takes effect: get of the entry's key, plain or dotted, in
\* any letter case and at any depth, returns the entry's value decoded, also
\* when several entries of m name the same section.
C19_OptionsTakeEffect ==
    last.op = "set_options" =>
        /\ \A i \in DOMAIN last.arg :
               Section_get_on(RootSection, last.arg[i].key).ret
                   = IntSettingsResolver_get(last.arg[i].value)
        /\ DOMAIN options.d
               = {Lower(Split(last.arg[i].key, ".")[1]) : i \in DOMAIN last.arg}


-----------------------------------------------------------------------------
(* Str settings that name other settings between braces                      *)

\* the str keys and the values the behaviours set them to
StrSets ==
    {<<k_str, <<"h","e","l","l","o">>>>, <<k_str2, <<"a","l","l">>>>, <<k_str3, <<"{","S","T","R","2","}",","," ","{","S","T","R","}">>>>,
     <<k_str4, <<"{","S","T","R","3","}"," ","a","g","a","i","n">>>>, <<k_str4, <<"p","l","a","i","n">>>>, <<k_str0, <<"n","i","l">>>>}

InitStr ==
    /\ NoFileOperation
    /\ options = PyDict(EmptyDict)
    /\ userconfig = ConfigFile_init(TRUE, <<>>)
    /\ nosave = PyDict(EmptyDict)
    /\ envconfig = PyDict(EmptyDict)
    /\ fileconfigs = <<>>
    /\ proxies = <<>>
    /\ last = [op |-> "init", key |-> <<>>, arg |-> PyNone, ret |-> PyNone,
               wrote |-> PyNone, focus |-> <<k_str3>>]

NextStr ==
    \/ \E k \in StrKeys : GetKey(Upper(k))
    \/ \E kv \in StrSets : SetKey(Upper(kv[1]), PyStr(kv[2]))

SpecStr == InitStr /\ [][NextStr]_vars

RECURSIVE Interpolated(_)
\* a text with every {NAME} replaced by the text that stands for setting NAME
\* now, itself with its names replaced
Interpolated(template) ==
    IF ~Contains(template, "{") \/ ~Contains(SplitAfter(template, "{"), "}") THEN template
    ELSE LET rest == SplitAfter(template, "{")
         IN  SplitBefore(template, "{")
             \o Interpolated(Py_str(FirstSourceValue(Snapshot, Lower(SplitBefore(rest, "}")))))
             \o Interpolated(SplitAfter(rest, "}"))

\* C17: a get of a str setting returns its text with every {NAME} replaced by
\* the present value of setting NAME, through the settings that name others
\* in turn; a set of a str setting leaves the text as given in the user file.
C17_Interpolation ==
    /\ (last.op = "get" /\ Lower(last.key) \in StrKeys)
          => last.ret = PyStr(Interpolated(Py_str(FirstSourceValue(Snapshot, Lower(last.key)))))
    /\ (last.op = "set" /\ Lower(last.key) \in StrKeys)
          => /\ InFile(userconfig, Lower(last.key))
             /\ userconfig.dict[Lower(last.key)] = last.arg

\* the same for the settings whose text names no setting with a 0 in its name
C17_InterpolationNoZero ==
    (last.op = "get" => last.key # Upper(k_str5)) => C17_Interpolation

-----------------------------------------------------------------------------
(* Read-only file configs given to the constructor and added afterwards:     *)
(* the config registered n-th holds, when it defines the key, the text of n. *)

\* BaseSettings.__init__ with a list of at most MaxFileConfigs files: the
\* configs are read into ConfigFile(False) and appended in the order of the
\* list.  last.registered lists the configs in the order of registration
InitCfgFiles ==
    \E k \in {k_int, k_tmp} : \E n \in 0..MaxFileConfigs : \E present \in [1..n -> BOOLEAN] :
        /\ NoFileOperation
        /\ options = PyDict(EmptyDict)
        /\ userconfig = ConfigFile_init(TRUE, <<>>)
        /\ nosave = PyDict(EmptyDict)
        /\ envconfig = PyDict(EmptyDict)
        /\ fileconfigs = [i \in 1..n |-> OneKeyFile(FALSE, k, present[i], IntStr(i))]
        /\ proxies = <<>>
        /\ last = [op |-> "init", key |-> Upper(k), ret |-> PyNone, registered |-> fileconfigs]

\* settings.add_cfgfile(file), the file defining the key or not: the config
\* is read into ConfigFile() and inserted at the head of the list
add_cfgfile(present) ==
    /\ Len(last.registered) <= MaxFileConfigs
    /\ LET config == OneKeyFile(TRUE, Lower(last.key), present,
                                IntStr(Len(last.registered) + 1))
       IN  /\ fileconfigs' = <<config>> \o fileconfigs
           /\ last' = [op |-> "add_cfgfile", key |-> last.key, ret |-> PyNone,
                       registered |-> Append(last.registered, config)]
    /\ UNCHANGED <<options, userconfig, nosave, envconfig, proxies>>
    /\ UNCHANGED fvars

\* settings.get(key) of the key the configs define
GetCfg ==
    LET returns(r) ==
            /\ Becomes(r.self)
            /\ last' = [last EXCEPT !.op = "get", !.ret = r.ret]
    IN  /\ returns(Section_get_on(RootSection, last.key))
        /\ UNCHANGED proxies
        /\ UNCHANGED fvars

NextCfgFiles ==
    \/ \E present \in BOOLEAN : add_cfgfile(present)
    \/ GetCfg

SpecCfgFiles == InitCfgFiles /\ [][NextCfgFiles]_vars

\* C18: when file configs define the key and no other source does, get
\* returns the value of the one registered last among them, be it given in
\* the constructor's list or added with add_cfgfile.
C18_LastRegisteredWins ==
    LET defining == {i \in DOMAIN last.registered : InFile(last.registered[i], Lower(last.key))}
    IN  (last.op = "get" /\ defining # {})
            => last.ret = PyInt(SetMax(defining))

-----------------------------------------------------------------------------
(* The PushBackFile on its own: lines are pushed back and read again.        *)
(* last.pushed lists the lines pushed and not yet returned, in the order of  *)
(* the pushes; a line is pushed only while it is not already waiting.        *)

\* the lines that are pushed
PushedLines == {L_keyvalue, L_section, L_comment}

InitPushBack ==
    /\ options = PyDict(EmptyDict) /\ userconfig = ConfigFile_init(TRUE, <<>>)
    /\ nosave = PyDict(EmptyDict) /\ envconfig = PyDict(EmptyDict)
    /\ fileconfigs = <<>> /\ proxies = <<>>
    /\ cfg = PyNone /\ peer = PyNone
    /\ text \in {<<>>, <<L_inline>>, <<L_inline, L_indented>>}
    /\ reader = PushBackFile_init
    /\ frames = <<>>
    /\ phase = "idle"
    /\ ret = PyNone
    /\ last = [op |-> "init", line |-> <<>>, stop |-> FALSE, before |-> <<>>,
               pushed |-> <<>>, pos |-> 0]

\* fp.push(line)
FpPush(line) ==
    /\ line \notin Range(last.pushed)
    /\ reader' = PushBackFile_push(reader, line)
    /\ last' = [op |-> "push", line |-> line, stop |-> FALSE, before |-> last.pushed,
                pushed |-> Append(last.pushed, line), pos |-> reader.pos]
    /\ UNCHANGED <<cfg, peer, text, frames, phase, ret>>
    /\ UNCHANGED ovars

\* fp.next()
FpNext ==
    LET r == PushBackFile_next(reader, text, TRUE)
        waiting == {i \in DOMAIN last.pushed : untab(<<>>, RStrip(last.pushed[i])) = r.line}
    IN  /\ reader' = r.rd
        /\ last' = [op |-> "next", line |-> r.line, stop |-> r.stop, before |-> last.pushed,
                    pushed |-> IF reader.stack = <<>> THEN last.pushed
                               ELSE [i \in 1..(Len(last.pushed) - 1) |->
                                        last.pushed[IF i < SetMin(waiting) THEN i ELSE i + 1]],
                    pos |-> reader.pos]
        /\ UNCHANGED <<cfg, peer, text, frames, phase, ret>>
        /\ UNCHANGED ovars

NextPushBack ==
    \/ \E line \in PushedLines : FpPush(line)
    \/ FpNext

SpecPushBack == InitPushBack /\ [][NextPushBack]_vars

\* C20: while pushed lines wait, next() returns the line pushed last among
\* them and leaves the stream alone; with none waiting it reads the stream.
C20_PushBackLIFO ==
    last.op = "next" =>
        IF last.before # <<>>
        THEN /\ ~last.stop
             /\ last.line = untab(<<>>, RStrip(last.before[Len(last.before)]))
             /\ reader.pos = last.pos
        ELSE \/ last.stop /\ last.pos = Len(text)
             \/ ~last.stop /\ reader.pos = last.pos + 1
                 /\ last.line = untab(<<>>, RStrip(text[reader.pos]))

-----------------------------------------------------------------------------
(* The initialize hooks.  Section.__init__ ends with a call of the           *)
(* initialize hook of every key of its class, with the key and its default.  *)
(* last.calls counts, for every class and key, the calls made so far.        *)

\* the classes of the model and their keys
Classes == {"Settings", "SECTION", "INNER", "DOCS"}
HookKeys == {h \in Classes \X (DOMAIN Defaults.d \cup {k_hello, k_inner, k_deep, k_topic}) :
                h[2] \in DOMAIN ClassDefaults(h[1]).d}

RECURSIVE walk_instances(_, _, _)
\* the classes of the instances that Section_walk builds, in the order of
\* their construction: one for every key read that names a subsection
walk_instances(self, path, op) ==
    LET made(r) == IF ~IsExc(r.ret) /\ r.ret.t = "Section" THEN <<r.ret.cls>> ELSE <<>>
        on(g) == IF made(g) = <<>> THEN <<>>
                 ELSE made(g) \o walk_instances(g.ret, Tail(path), op)
    IN  IF path = <<>>
        THEN IF op.name = "__getattr__" THEN made(Section_getattr_on(self, op.key)) ELSE <<>>
        ELSE on(Section_getattr_on(self, path[1]))

\* the counts after the constructions of instances of the classes built
initialize_calls(calls, built) ==
    [h \in HookKeys |-> calls[h] + Cardinality({i \in DOMAIN built : built[i] = h[1]})]

\* Settings(): the root is constructed, which calls the hooks of its keys
InitHooks ==
    /\ NoFileOperation
    /\ options = PyDict(EmptyDict)
    /\ userconfig = ConfigFile_init(TRUE, <<>>)
    /\ nosave = PyDict(EmptyDict)
    /\ envconfig = PyDict(EmptyDict)
    /\ fileconfigs = <<>>
    /\ proxies = <<>>
    /\ last = [op |-> "init", key |-> <<>>, ret |-> PyNone,
               calls |-> initialize_calls([h \in HookKeys |-> 0], <<"Settings">>)]

\* the keys read and written
HookedKeys ==
    {Upper(k_int), Upper(k_section), Dotted(<<k_section, k_hello>>),
     Upper(Dotted(<<k_section, k_inner>>)), Upper(Dotted(<<k_section, k_inner, k_deep>>)),
     Dotted(<<k_hello, k_deep>>)}

\* settings.get(key), while no hook has been called more than MaxInt times
GetHooked(key) ==
    LET path == [i \in DOMAIN PathOfKey(key) |-> Upper(PathOfKey(key)[i])]
        op == [name |-> "__getattr__", key |-> Upper(LastOfKey(key))]
        returns(r) ==
            /\ Becomes(r.self)
            /\ last' = [op |-> "get", key |-> key, ret |-> r.ret,
                        calls |-> initialize_calls(last.calls,
                                      walk_instances(RootSection, path, op))]
    IN  /\ \A h \in HookKeys : last.calls[h] <= MaxInt
        /\ returns(Section_walk(RootSection, path, op))
        /\ UNCHANGED proxies
        /\ UNCHANGED fvars

\* settings.set(key, value), likewise
SetHooked(key, value) ==
    LET path == PathOfKey(key)
        op == [name |-> "__setattr__", key |-> Upper(LastOfKey(key)), value |-> value]
        returns(r) ==
            /\ Becomes(r.self)
            /\ last' = [op |-> "set", key |-> key, ret |-> r.ret,
                        calls |-> initialize_calls(last.calls,
                                      walk_instances(RootSection, path, op))]
    IN  /\ \A h \in HookKeys : last.calls[h] <= MaxInt
        /\ returns(Section_walk(RootSection, path, op))
        /\ UNCHANGED proxies
        /\ UNCHANGED fvars

NextHooks ==
    \/ \E key \in HookedKeys : GetHooked(key)
    \/ \E key \in HookedKeys : \E n \in 0..MaxInt : SetHooked(key, PyInt(n))

SpecHooks == InitHooks /\ [][NextHooks]_vars

\* C21: at every moment of the life of a settings object the initialize hook
\* of every declared key, those of the subsections included, has been called
\* exactly once.
C21_InitializeOnce == \A h \in HookKeys : last.calls[h] = 1

\* the same for the keys of the root alone
C21_RootInitializeOnce == \A h \in HookKeys : h[1] = "Settings" => last.calls[h] = 1

-----------------------------------------------------------------------------
(* An int resolver made with min and max, and the values it validates        *)

\* the ints of the bounds and of the values, and no bound
IntRange == {PyInt(n) : n \in -MaxInt..MaxInt}
IntBounds == IntRange \cup {PyNone}

\* IntSettingsResolver(settings, min=min, max=max)
InitValidate ==
    /\ NoFileOperation
    /\ options = PyDict(EmptyDict)
    /\ userconfig = ConfigFile_init(TRUE, <<>>)
    /\ nosave = PyDict(EmptyDict)
    /\ envconfig = PyDict(EmptyDict)
    /\ fileconfigs = <<>>
    /\ proxies = <<>>
    /\ \E min \in IntBounds : \E max \in IntBounds :
           last = [op |-> "init", min |-> min, max |-> max, arg |-> PyNone, ret |-> PyNone]

\* resolver.validate(value)
Validate(value) ==
    /\ last' = [last EXCEPT !.op = "validate", !.arg = value,
                            !.ret = PyBool(IntSettingsResolver__validate(last.min, last.max,
                                                                         <<>>, value))]
    /\ UNCHANGED ovars
    /\ UNCHANGED fvars

NextValidate == \E value \in IntRange : Validate(value)

SpecValidate == InitValidate /\ [][NextValidate]_vars

\* C22: an int resolver with min and/or max accepts v exactly when v is not
\* below min, if min is given, and not above max, if max is given.
C22_MinMaxInclusive ==
    last.op = "validate" =>
        last.ret = PyBool(/\ (last.min # PyNone => last.min.v <= last.arg.v)
                          /\ (last.max # PyNone => last.arg.v <= last.max.v))

\* what the code accepts: values strictly between the bounds, a bound of 0
\* counting as no bound unless min is 0 beside a max other than 0
C22_MinMaxStrict ==
    last.op = "validate" =>
        LET given(b) == b # PyNone /\ b.v # 0
        IN  last.ret = PyBool(IF given(last.max)
                              THEN /\ (last.min # PyNone => last.min.v < last.arg.v)
                                   /\ last.arg.v < last.max.v
                              ELSE given(last.min) => last.min.v < last.arg.v)

-----------------------------------------------------------------------------
(* The line number of the PushBackFile during a read                         *)

\* the lines on the stack are the lines read last from the stream, in the
\* order of the stream from the top of the stack down
StackOfStream ==
    \A i \in DOMAIN reader.stack :
        /\ reader.pos - i + 1 \in DOMAIN text
        /\ reader.stack[i] = untab(<<>>, RStrip(text[reader.pos - i + 1]))

\* C23: when next() has handed a line to the parser, fp.lineno is the
\* position of that line in the stream, counted from 1.
C23_LineNumber ==
    (last.op \in {"line", "peek"} /\ last.ctl # "stop") => last.lineno = last.at

\* the same while no blank line has been read ahead after a section header
C23_LineNumberNoBlankAhead ==
    (\A i \in 1..reader.pos : i > 1 /\ Strip(text[i]) = <<>> =>
        \A j \in 1..(i - 1) : \/ Strip(text[j]) = <<>>
                               \/ StartsWith(Strip(text[j]), <<"#">>)
                               \/ Strip(text[j])[Len(Strip(text[j]))] # ":"
                               \/ \E m \in (j + 1)..(i - 1) :
                                      /\ Strip(text[m]) # <<>>
                                      /\ ~StartsWith(Strip(text[m]), <<"#">>))
        => C23_LineNumber

-----------------------------------------------------------------------------
(* Two proxies of one key, each made by its own get(): items are appended    *)
(* to the list proxies and keys set in the dict proxies.  last.added lists   *)
(* what the calls that returned normally have added, through either proxy.   *)

InitTwoProxies ==
    \E k \in {k_list, k_dict} :
        /\ NoFileOperation
        /\ options = PyDict(EmptyDict)
        /\ userconfig \in {OneKeyFile(TRUE, k, FALSE, <<>>)}
                          \cup {OneKeyFile(TRUE, k, TRUE, raw) : raw \in ProxyTexts(k)}
        /\ nosave = PyDict(EmptyDict)
        /\ envconfig = PyDict(EmptyDict)
        /\ fileconfigs = <<>>
        /\ proxies = <<>>
        /\ last = [op |-> "init", key |-> k, proxy |-> 0, ret |-> PyNone, added |-> <<>>]

\* p = settings.get(key)
GetAnother ==
    LET made(r) ==
            /\ proxies' = IF IsExc(r) THEN proxies ELSE Append(proxies, r)
            /\ last' = [last EXCEPT !.op = "get", !.ret = r,
                                    !.proxy = IF IsExc(r) THEN 0 ELSE Len(proxies) + 1]
    IN  /\ Len(proxies) + 1 \in ProxySlots
        /\ made(Section_get(Upper(last.key)))
        /\ UNCHANGED <<options, userconfig, nosave, envconfig, fileconfigs>>
        /\ UNCHANGED fvars

\* p.append(v) on the i-th proxy, a list proxy
AppendTo(i, v) ==
    LET called(p, r) ==
            /\ proxies' = [proxies EXCEPT ![i].l = r.l]
            /\ userconfig' = IF r.sync THEN SyncList_sync(userconfig, [p EXCEPT !.l = r.l])
                              ELSE userconfig
            /\ last' = [last EXCEPT !.op = "append", !.proxy = i, !.ret = r.ret,
                                    !.added = IF IsExc(r.ret) THEN @
                                              ELSE Append(@, r.l[Len(r.l)])]
    IN  /\ proxies[i].t = "SyncList"
        /\ Len(last.added) < MaxLen
        /\ called(proxies[i], SyncList_call(proxies[i], "append", 0, v))
        /\ UNCHANGED <<options, nosave, envconfig, fileconfigs>>
        /\ UNCHANGED fvars

\* p[key] = value on the i-th proxy, a dict proxy
SetItemOf(i, key, value) ==
    LET called(p, r) ==
            /\ proxies' = [proxies EXCEPT ![i].d = r.d]
            /\ userconfig' = IF r.sync THEN SyncList_sync(userconfig, [p EXCEPT !.d = r.d])
                              ELSE userconfig
            /\ last' = [last EXCEPT !.op = "__setitem__", !.proxy = i, !.ret = r.ret,
                                    !.added = IF IsExc(r.ret) THEN @ ELSE Append(@, key)]
    IN  /\ proxies[i].t = "SyncDict"
        /\ Len(last.added) < MaxLen
        /\ called(proxies[i], SyncDict_call(proxies[i], "__setitem__", key, value))
        /\ UNCHANGED <<options, nosave, envconfig, fileconfigs>>
        /\ UNCHANGED fvars

NextTwoProxies ==
    \/ GetAnother
    \/ \E i \in DOMAIN proxies : \E v \in ListArgs : AppendTo(i, v)
    \/ \E i \in DOMAIN proxies : \E key \in DictKeys : \E value \in DictArgs :
           SetItemOf(i, key, value)

SpecTwoProxies == InitTwoProxies /\ [][NextTwoProxies]_vars

\* the items of the list, or the keys of the dict, that the text in the user
\* file stands for
StoredMembers ==
    LET stored == userconfig.dict[last.key]
    IN  IF last.key = k_list
        THEN Range(ListSettingsResolver__get(stored).v)
        ELSE DOMAIN json_loads(stored.v).d

\* C24: after an append or an item assignment through a proxy, the text in
\* the user file stands for a list or dict that holds everything added so
\* far, through this proxy and through the other proxy of the key.
C24_BothReflected ==
    (last.op \in {"append", "__setitem__"} /\ ~IsExc(last.ret))
        => \A n \in DOMAIN last.added : last.added[n] \in StoredMembers

\* the same for what has been added through the proxy called last: every
\* item in its own list or dict is in the user file
C24_OwnReflected ==
    (last.op \in {"append", "__setitem__"} /\ ~IsExc(last.ret))
        => IF last.key = k_list THEN Range(proxies[last.proxy].l) = StoredMembers
           ELSE DOMAIN proxies[last.proxy].d.d = StoredMembers

-----------------------------------------------------------------------------
(* Repeated access of one subsection: SECTION, whose class has no            *)
(* docstring, or DOCS, whose class has one.  last.section is the subsection  *)
(* of the behaviour, last.n the number of accesses made, last.pre the user   *)
(* file tree before the last call.                                           *)

\* the key of the subsection sec that the behaviours read and write
KeyIn(sec) == IF sec = k_docs THEN k_topic ELSE k_hello

InitDocs ==
    \E sec \in {k_section, k_docs} :
        /\ NoFileOperation
        /\ options = PyDict(EmptyDict)
        /\ userconfig \in
               {ConfigFile_init(TRUE, <<>>),
                ConfigFile_setitem(ConfigFile_init(TRUE, <<>>), sec,
                    ConfigFile_setitem(ConfigFile_init(TRUE, <<>>), KeyIn(sec), PyStr(<<"7">>))),
                ConfigFile_setitem(ConfigFile_init(TRUE, <<>>), sec,
                    ConfigFile_init(TRUE, <<<<"n","o","t","e","s">>>>))}
        /\ nosave = PyDict(EmptyDict)
        /\ envconfig = PyDict(EmptyDict)
        /\ fileconfigs = <<>>
        /\ proxies = <<>>
        /\ last = [op |-> "init", key |-> <<>>, ret |-> PyNone, section |-> sec, n |-> 0,
                   pre |-> userconfig]

\* settings.get(key) for the subsection or the key in it
GetInSection(key) ==
    LET returns(r) ==
            /\ Becomes(r.self)
            /\ last' = [last EXCEPT !.op = "get", !.key = key, !.ret = r.ret, !.n = @ + 1,
                                    !.pre = userconfig]
    IN  /\ last.n <= MaxInt
        /\ returns(Section_get_on(RootSection, key))
        /\ UNCHANGED proxies
        /\ UNCHANGED fvars

\* settings.set(key, value) for the key in the subsection
SetInSection(key, value) ==
    LET returns(r) ==
            /\ Becomes(r.self)
            /\ last' = [last EXCEPT !.op = "set", !.key = key, !.ret = r.ret, !.n = @ + 1,
                                    !.pre = userconfig]
    IN  /\ last.n <= MaxInt
        /\ returns(Section_set_on(RootSection, key, value))
        /\ UNCHANGED proxies
        /\ UNCHANGED fvars

NextDocs ==
    \/ \E key \in {Upper(last.section), Upper(Dotted(<<last.section, KeyIn(last.section)>>))} :
           GetInSection(key)
    \/ \E n \in 0..MaxInt :
           SetInSection(Upper(Dotted(<<last.section, KeyIn(last.section)>>)), PyInt(n))

SpecDocs == InitDocs /\ [][NextDocs]_vars

\* C25: once a subsection has been accessed, reading it or a key in it again
\* leaves the user file tree, section comments included, as it was.
C25_AccessIdempotent ==
    (last.op = "get" /\ last.n >= 2) => userconfig = last.pre

\* the same for a subsection whose class has no docstring, and for the keys
\* and values of every subsection
C25_AccessIdempotentNoDoc ==
    (last.op = "get" /\ last.n >= 2)
        => /\ last.section = k_section => userconfig = last.pre
           /\ [userconfig.dict[last.section] EXCEPT !.section_comment = <<>>]
                  = [last.pre.dict[last.section] EXCEPT !.section_comment = <<>>]

-----------------------------------------------------------------------------
(* What a get returns right after a set                                      *)

\* C26: after a set of a declared key with a valid value, when no
\* command-line option holds the key, a get of the key returns the value as
\* the key's resolver decodes it.
C26_ReadYourWrites ==
    (last.op = "set" /\ Focus \in DeclaredKeys /\ ~Invalid(Focus, last.arg)
     /\ Focus \notin DOMAIN options.d)
        => Section_get(Upper(Focus)) = Resolver_get(Focus, last.arg)

\* the same for the keys that are saved and not solid, set to an int or a
\* str, and for the save-disabled key while the user file does not hold it
C26_ReadYourWritesSaved ==
    (/\ Focus \notin {k_fixed}
     /\ Focus = k_tmp => ~InFile(userconfig, k_tmp)
     /\ (last.op = "set" /\ Focus = k_int) => last.arg.t # "bool")
        => C26_ReadYourWrites

\* a header line of the stream after which nothing substantive follows
HeaderLast(t) ==
    \E i \in DOMAIN t :
        /\ Substantive(t[i]) /\ IsHeader(t[i])
        /\ \A j \in (i + 1)..Len(t) : ~Substantive(t[j])

\* C27: read on a new tree ends by returning, or by the ValueError that
\* reports a format error; in particular a stream whose last substantive
\* line is a section header never ends in another error, and after a
\* normal return no line is left on the stream or on the push-back stack.
C27_ReadReturns ==
    (ReadEnded /\ ConfigFile_keys(last.pre.cfg) = <<>>) =>
        /\ phase = "done" \/ ret = Exc("ValueError")
        /\ phase = "done" => reader.pos = Len(text) /\ reader.stack = <<>>

\* a read that ended with StopIteration
C27_StopIterationRaised ==
    /\ phase = "raised" /\ ret = Exc("StopIteration")
    /\ ConfigFile_keys(last.pre.cfg) = <<>>

\* what does hold: StopIteration escapes only from the look-ahead after a
\* header with nothing substantive behind it, and a read that returns
\* has consumed the whole stream
C27_ReadReturnsUnlessHeaderLast ==
    /\ (phase = "raised" /\ ConfigFile_keys(last.pre.cfg) = <<>>) =>
           \/ ret = Exc("ValueError")
           \/ ret = Exc("StopIteration") /\ HeaderLast(text)
    /\ phase = "done" => reader.pos = Len(text) /\ reader.stack = <<>>

\* every key of tree a is a key of tree b, at every depth
RECURSIVE Covers(_, _)
Covers(a, b) ==
    \A k \in Range(a.values) :
        /\ k \in Range(b.values)
        /\ (a.dict[k].t = "cfg" /\ b.dict[k].t = "cfg") => Covers(a.dict[k], b.dict[k])

\* C28: cfg == peer leaves both operands as they were: the keys, their
\* order, the values and the nesting of cfg and of peer are the same after
\* the comparison as before it.
C28_CompareReadOnly ==
    phase = "compared" =>
        /\ cfg.values = last.pre.cfg.values /\ EqualTrees(cfg, last.pre.cfg)
        /\ peer.values = last.pre.peer.values /\ EqualTrees(peer, last.pre.peer)

\* a comparison that has grown its right operand
C28_PeerGrown ==
    /\ phase = "compared"
    /\ Range(last.pre.peer.values) # Range(peer.values)
    /\ Range(last.pre.peer.values) \subseteq Range(peer.values)

\* what does hold: the left operand is never changed, and the right one
\* is unchanged when it holds every key of the left one at every depth
C28_CompareReadOnlyCovered ==
    phase = "compared" =>
        /\ cfg = last.pre.cfg
        /\ Covers(last.pre.cfg, last.pre.peer) => peer = last.pre.peer

-----------------------------------------------------------------------------
(* The keys declared with save=False: TMP, SCRATCH and MEMO.  A behaviour    *)
(* exercises one of them with get, set and the methods of the proxy that get *)
(* returned.                                                                 *)

NoSaveKeys == {k_tmp, k_scratch, k_memo}

InitNoSave ==
    \E k \in NoSaveKeys :
        /\ NoFileOperation
        /\ options = PyDict(EmptyDict)
        /\ userconfig \in {OneKeyFile(TRUE, k, FALSE, <<>>)}
                          \cup IF Resolvers[k] = "int" THEN {OneKeyFile(TRUE, k, TRUE, <<"5">>)}
                               ELSE {OneKeyFile(TRUE, k, TRUE, raw) : raw \in ProxyTexts(k)}
        /\ nosave = PyDict(EmptyDict)
        /\ envconfig = PyDict(EmptyDict)
        /\ fileconfigs = <<>>
        /\ proxies = <<>>
        /\ last = [op |-> "init", key |-> k, proxy |-> 0, ret |-> PyNone,
                   pre |-> userconfig]

\* settings.set(key, value) for the int key
SetNoSave(key, value) ==
    LET r == Section_set(key, value)
    IN  /\ Resolvers[Lower(last.key)] = "int"
        /\ userconfig' = r.uc
        /\ nosave' = r.ns
        /\ last' = [op |-> "set", key |-> last.key, proxy |-> 0, ret |-> r.ret,
                    pre |-> userconfig]
        /\ UNCHANGED <<options, envconfig, fileconfigs, proxies>>
        /\ UNCHANGED fvars

NextNoSave ==
    \/ NextProxy
    \/ \E key \in KeyForms(Lower(last.key)), value \in SetValues : SetNoSave(key, value)

SpecNoSave == InitNoSave /\ [][NextNoSave]_vars

\* what the tree c holds for key k
EntryOf(c, k) == IF InFile(c, k) THEN <<c.dict[k]>> ELSE <<>>

\* C29: no get, no set and no method of a proxy that get returned creates
\* or changes the user file tree's entry of a key declared with save=False.
C29_NoSaveNeverWritten ==
    SaveDisabled(Lower(last.key)) =>
        EntryOf(userconfig, Lower(last.key)) = EntryOf(last.pre, Lower(last.key))

\* a method of a proxy of a save-disabled key has written the key's entry
C29_ProxyWrote ==
    /\ SaveDisabled(Lower(last.key))
    /\ last.op \in ListMethods \cup DictMethods
    /\ EntryOf(userconfig, Lower(last.key)) # EntryOf(last.pre, Lower(last.key))

\* what does hold: get and set leave the entry alone, and so does a proxy
\* method that ends before its __sync
C29_NoSaveGetSet ==
    (/\ SaveDisabled(Lower(last.key))
     /\ (last.op \in ListMethods \cup DictMethods => IsExc(last.ret))) =>
        userconfig = last.pre

\* C30: a set(k, v) that ends with an error, of whatever kind, leaves the
\* user file tree and the nosave store exactly as they were before the call.
C30_SetAllOrNothing ==
    (last.op = "set" /\ IsExc(last.ret)) =>
        /\ userconfig = last.pre.userconfig
        /\ nosave = last.pre.nosave

\* a set that ended with an error after it had stored the value
C30_StoredThenRaised ==
    /\ last.op = "set" /\ IsExc(last.ret)
    /\ userconfig # last.pre.userconfig

\* what does hold: a set that ends with a validation error or a key error
\* has changed nothing, and no failing set changes the nosave store
C30_SetRejectedUnchanged ==
    (last.op = "set" /\ IsExc(last.ret)) =>
        /\ nosave = last.pre.nosave
        /\ last.ret # Exc("UnboundLocalError") => userconfig = last.pre.userconfig
=============================================================================
